---- MODULE Spec2Model ----
(***************************************************************************)
(* Model of the CookiesJO dashboard: the scoring and recommendation        *)
(* functions (models/decision_engine.py, models/demand_forecasting.py,     *)
(* models/maintenance_models.py, utils/calculations.py), the data loading  *)
(* (utils/data_processing.py) and the session state of the reactive        *)
(* script (app.py).                                                        *)
(*                                                                         *)
(* Number conventions (fixed point, exact):                                *)
(*   temperature        tenths of a degree      (85.0 C   -> 850)          *)
(*   vibration          tenths of a mm/s        (3.5 mm/s -> 35)           *)
(*   utilization        tenths of a percent     (85 %     -> 850)          *)
(*   unit_cost          hundredths of a JOD     (10.00    -> 1000)         *)
(*   a fractional result is a rational [num, den] with den > 0.            *)
(***************************************************************************)
EXTENDS Integers, Sequences, FiniteSets, TLC

VARIABLES
    machine_data,      \* the machine table (a sequence of rows)
    inventory_data,    \* the inventory table
    operations_data,   \* the operations table
    demand_data,       \* the demand history table
    rng,               \* state of the process-wide numpy generator
    ret,               \* what the last call returned (or raised)
    prev_ret,          \* what the call before it returned, where the caller keeps it
    session_state,     \* st.session_state: key -> value
    selected,          \* the page chosen in the navigation menu
    data_cache,        \* st.cache_data entry of load_factory_data
    files,             \* the data/ directory: path -> "absent" or content
    today              \* the current date (ordinal day of a non-leap year)

vars == <<machine_data, inventory_data, operations_data, demand_data, rng, ret,
          prev_ret, session_state, selected, data_cache, files, today>>

tables == <<machine_data, inventory_data, operations_data, demand_data>>
session == <<session_state, selected, data_cache>>
environment == <<files, today>>

----------------------------------------------------------------------------
(* Bounds of the model *)

MaxMachines == 2
MaxProducts == 2
MaxAreas == 2
RngMod == 4
\* sizes of the demo data (20 products, 10 machines, 180 days and 8 areas in
\* the source) and the number of days the clock can advance
DemoProducts == 2
DemoMachines == 2
DemoDays == 3
DemoAreas == 2
MaxDays == 2
\* the day the model starts on: ordinal 152 is 1 June, a Friday
FirstDay == 152
\* the largest inventory table given to calculate_inventory_health: with three
\* products no single one need hold half of the stock value
MaxHealthProducts == 3
\* the longest demand history and the longest forecast
MaxHistory == 3
MaxDaysAhead == 2
\* the days of the generated sample (60 in the source) and the records the
\* trend is fitted to (the last 30 in the source)
SampleDays == 4
RecentWindow == 2
\* the largest numerator and denominator given to a ratio utility
MaxAmount == 4
\* the sizes of the tables on which the caps of generate_recommendations
\* bind: more rows than the 3 stockout and the 2 medium-risk, bottleneck and
\* overstock recommendations it keeps
CapMachines == 3
CapProducts == 4
CapAreas == 3

\* the largest inventory table whose reorder quantities are compared
MaxReorderProducts == 2

----------------------------------------------------------------------------
(* Arithmetic helpers *)

Min(a, b) == IF a <= b THEN a ELSE b
Max(a, b) == IF a >= b THEN a ELSE b

Abs(a) == IF a < 0 THEN -a ELSE a

RECURSIVE Gcd(_, _)
Gcd(a, b) == IF b = 0 THEN a ELSE Gcd(b, a % b)

\* the rational n/d (d > 0) in lowest terms
Rat(n, d) == LET g == Gcd(Abs(n), d) IN [num |-> n \div g, den |-> d \div g]
RAdd(a, b) == Rat(a.num * b.den + b.num * a.den, a.den * b.den)
RSub(a, b) == Rat(a.num * b.den - b.num * a.den, a.den * b.den)
RMul(a, b) == Rat(a.num * b.num, a.den * b.den)
RLeq(a, b) == a.num * b.den <= b.num * a.den
RLt(a, b) == a.num * b.den < b.num * a.den
REq(a, b) == a.num * b.den = b.num * a.den
RMin(a, b) == IF RLeq(a, b) THEN a ELSE b
RMax(a, b) == IF RLeq(b, a) THEN a ELSE b

RECURSIVE SumSeq(_)
SumSeq(s) == IF s = <<>> THEN 0 ELSE Head(s) + SumSeq(Tail(s))

\* a head that keeps every row
head_all(s, n) == s

\* pandas head(n): the first n rows
head(s, n) == SubSeq(s, 1, Min(n, Len(s)))

\* len(df[mask]) / mask.sum(): the number of rows that satisfy Test
Count(s, Test(_)) == Cardinality({i \in DOMAIN s : Test(s[i])})

\* Python int(x) of a non-negative rational: truncation
IntOf(r) == r.num \div r.den

\* format(x, '.0f') of a non-negative rational: round half to even
Round0(r) ==
    LET q == r.num \div r.den
        twice == 2 * (r.num % r.den)
    IN  IF twice < r.den THEN q
        ELSE IF twice > r.den THEN q + 1
        ELSE IF q % 2 = 0 THEN q ELSE q + 1

----------------------------------------------------------------------------
(* numpy's global generator.  The state is a position in a cycle of       *)
(* RngMod values; a draw maps the state to the requested range and steps   *)
(* the generator.                                                          *)

RngStates == 0 .. (RngMod - 1)

seed(s) == s % RngMod

\* the state after k draws
advance(g, k) == (g + k) % RngMod

\* np.random.randint(low, high): an integer in [low, high)
randint(g, low, high) == low + ((high - low) * g) \div RngMod

\* np.random.uniform(low, high) with low, high given over the denominator d:
\* a rational in [low/d, high/d)
uniform(g, low, high, d) == Rat(low * RngMod + (high - low) * g, d * RngMod)

----------------------------------------------------------------------------
(* models/decision_engine.py : calculate_risk_score *)

\* a mis-typed sign between the two machine risks
machine_risk_minus(machine_data_) ==
    LET temp_count == Count(machine_data_, LAMBDA m : m.temperature > 850)
        vib_count == Count(machine_data_, LAMBDA m : m.vibration > 35)
    IN  Rat(25 * (temp_count - vib_count), Len(machine_data_))

\* (temp_risk + vib_risk) / 2 * 50
machine_risk(machine_data_) ==
    LET temp_count == Count(machine_data_, LAMBDA m : m.temperature > 850)
        vib_count == Count(machine_data_, LAMBDA m : m.vibration > 35)
    IN  Rat(25 * (temp_count + vib_count), Len(machine_data_))

\* (low_stock_risk / len(inventory_data)) * 30
inventory_risk(inventory_data_) ==
    LET low_stock_risk ==
            Count(inventory_data_, LAMBDA p : p.current_stock < p.safety_stock)
    IN  Rat(30 * low_stock_risk, Len(inventory_data_))

\* np.random.uniform(5, 15)
operational_risk(g) == uniform(g, 5, 15, 1)

RiskDraws == 1

calculate_risk_score(machine_data_, inventory_data_, g) ==
    LET total_risk == RAdd(RAdd(machine_risk(machine_data_),
                                inventory_risk(inventory_data_)),
                           operational_risk(g))
    IN  RMin(Rat(100, 1), total_risk)

----------------------------------------------------------------------------
(* models/decision_engine.py : generate_recommendations *)

AI_CRITICAL == "Random Forest Classification, Anomaly Detection (Isolation Forest), Remaining Useful Life Estimation, Feature Importance Analysis"
AI_STOCKOUT == "ARIMA Time Series Forecasting, Prophet Demand Prediction, Safety Stock Optimization, Economic Order Quantity (EOQ) Calculation"
AI_MEDIUM == "Random Forest Regression for RUL, Gradient Boosting, Time-Series Feature Extraction, Predictive Analytics"
AI_BOTTLENECK == "K-Means Clustering for pattern detection, Bottleneck Analysis, Resource Optimization Algorithms, Heuristic Optimization"
AI_OVERSTOCK == "Inventory Turnover Analysis, ABC Classification, Demand Pattern Recognition, Stock Optimization Algorithms"

critical_machines(machine_data_) ==
    SelectSeq(machine_data_, LAMBDA m : m.temperature > 850)

low_stock_products(inventory_data_) ==
    SelectSeq(inventory_data_, LAMBDA p : p.current_stock < p.safety_stock)

medium_risk_machines(machine_data_) ==
    SelectSeq(machine_data_, LAMBDA m : m.temperature > 800 /\ m.temperature <= 850)

bottlenecks(operations_data_) ==
    SelectSeq(operations_data_, LAMBDA b : b.utilization > 850)

\* current_stock > safety_stock * 2.5
overstock_products(inventory_data_) ==
    SelectSeq(inventory_data_, LAMBDA p : 2 * p.current_stock > 5 * p.safety_stock)

\* min(100, (temperature - 60) / 40 * 100 + vibration / 5 * 30)
failure_prob(machine) ==
    RMin(Rat(100, 1),
         Rat(25 * (machine.temperature - 600) + 60 * machine.vibration, 100))

\* one priority-1 recommendation; it draws downtime_hours and cost_per_hour
CriticalRec(machine, g) ==
    LET downtime_hours == randint(g, 8, 18)
        cost_per_hour == randint(advance(g, 1), 400, 800)
        potential_loss == downtime_hours * cost_per_hour
    IN  [priority |-> 1,
         category |-> "Predictive Maintenance",
         action |-> <<"Schedule emergency maintenance for", machine.machine_name>>,
         reason |-> <<"Critical temperature level", machine.temperature,
                      "Failure probability", Round0(failure_prob(machine)),
                      "Vibration exceeds safe threshold", machine.vibration>>,
         impact |-> <<"Prevent unplanned downtime of", downtime_hours,
                      "Estimated cost avoidance", potential_loss>>,
         timeline |-> <<"Within 24-48 hours (CRITICAL)">>,
         ai_methods |-> AI_CRITICAL]

\* an order that only fills the stock up to the safety stock
reorder_qty_up_to_safety(product) == product.safety_stock - product.current_stock

\* int((safety_stock * 2) - current_stock)
reorder_qty(product) == (product.safety_stock * 2) - product.current_stock

\* the division (reorder_qty - current_stock) / current_stock of two Python
\* numbers raises ZeroDivisionError when current_stock is 0
increase_pct_raises(product) == product.current_stock = 0

\* a stockout recommendation whose priority follows the drawn days
StockoutRec_urgent(product, g) ==
    LET days_until_stockout == randint(g, 2, 7)
        demand_per_day == randint(advance(g, 1), 8, 15)
        lost_sales == days_until_stockout * demand_per_day * product.unit_cost
    IN  [priority |-> IF days_until_stockout < 4 THEN 1 ELSE 2,
         category |-> "Inventory Management",
         action |-> <<"Emergency reorder for", product.product_name>>,
         reason |-> <<"Current stock", product.current_stock,
                      "below safety level", product.safety_stock,
                      "Predicted stockout in", days_until_stockout>>,
         impact |-> <<"Prevent lost sales of", Round0(Rat(lost_sales, 100)),
                      "Maintain service level",
                      IF days_until_stockout < 4 THEN 98 ELSE 95>>,
         timeline |-> <<"Immediate - Order", reorder_qty(product)>>,
         ai_methods |-> AI_STOCKOUT]

\* one stockout recommendation; it draws days_until_stockout and demand_per_day
StockoutRec(product, g) ==
    LET days_until_stockout == randint(g, 2, 7)
        demand_per_day == randint(advance(g, 1), 8, 15)
        lost_sales == days_until_stockout * demand_per_day * product.unit_cost
    IN  [priority |-> 2,
         category |-> "Inventory Management",
         action |-> <<"Emergency reorder for", product.product_name>>,
         reason |-> <<"Current stock", product.current_stock,
                      "below safety level", product.safety_stock,
                      "Predicted stockout in", days_until_stockout>>,
         impact |-> <<"Prevent lost sales of", Round0(Rat(lost_sales, 100)),
                      "Maintain service level",
                      IF days_until_stockout < 4 THEN 98 ELSE 95>>,
         timeline |-> <<"Immediate - Order", reorder_qty(product)>>,
         ai_methods |-> AI_STOCKOUT]

\* one medium-risk recommendation; it draws rul_days
MediumRec(machine, g) ==
    LET rul_days == Max(3, randint(g, 5, 12))
    IN  [priority |-> 2,
         category |-> "Predictive Maintenance",
         action |-> <<"Schedule preventive maintenance for", machine.machine_name>>,
         reason |-> <<"Elevated temperature trend", machine.temperature,
                      "Estimated RUL", rul_days>>,
         impact |-> <<"Extend equipment lifespan by 15-20%">>,
         timeline |-> <<"Within days", rul_days - 2>>,
         ai_methods |-> AI_MEDIUM]

\* one bottleneck recommendation; it draws monthly_impact, throughput_increase
\* and the efficiency figure inside the impact text
BottleneckRec(bottleneck, g) ==
    LET efficiency_loss == 1000 - bottleneck.efficiency_rate
        monthly_impact == randint(g, 1500, 3500)
        throughput_increase == randint(advance(g, 1), 12, 20)
    IN  [priority |-> 3,
         category |-> "Operations Optimization",
         action |-> <<"Optimize resource allocation in", bottleneck.area>>,
         reason |-> <<"Utilization at", Round0(Rat(bottleneck.utilization, 10)),
                      "Efficiency loss", Round0(Rat(efficiency_loss, 10))>>,
         impact |-> <<"Increase throughput by", throughput_increase,
                      "Monthly cost savings", monthly_impact,
                      "Improve overall warehouse efficiency by",
                      randint(advance(g, 2), 8, 15)>>,
         timeline |-> <<"Implement within next shift planning cycle (3-5 days)">>,
         ai_methods |-> AI_BOTTLENECK]

\* one overstock recommendation; it draws nothing
OverstockRec(product) ==
    LET tied_capital == product.current_stock * product.unit_cost
    IN  [priority |-> 3,
         category |-> "Inventory Optimization",
         action |-> <<"Reduce stock level for", product.product_name>>,
         reason |-> <<"Overstock detected", product.current_stock,
                      "vs optimal", IntOf(Rat(product.safety_stock * 3, 2)),
                      "Excess capital tied up", Round0(Rat(tied_capital, 100))>>,
         impact |-> <<"Release", Round0(Rat(tied_capital * 4, 1000)),
                      "Reduce monthly holding costs by",
                      Round0(Rat(tied_capital * 2, 10000))>>,
         timeline |-> <<"Gradual reduction over next 30-60 days">>,
         ai_methods |-> AI_OVERSTOCK]

\* a sort that reverses the order of equal keys
RECURSIVE sort_unstable(_)
sort_unstable(recs) ==
    IF recs = <<>> THEN <<>>
    ELSE LET x == Head(recs)
             rest == sort_unstable(Tail(recs))
         IN  SelectSeq(rest, LAMBDA r : r.priority <= x.priority)
             \o <<x>> \o
             SelectSeq(rest, LAMBDA r : r.priority > x.priority)

\* recommendations.sort(key=lambda x: x['priority']): list.sort is stable
RECURSIVE sort_by_priority(_)
sort_by_priority(recs) ==
    IF recs = <<>> THEN <<>>
    ELSE LET x == Head(recs)
             rest == sort_by_priority(Tail(recs))
         IN  SelectSeq(rest, LAMBDA r : r.priority < x.priority)
             \o <<x>> \o
             SelectSeq(rest, LAMBDA r : r.priority >= x.priority)

\* The five loops in generation order, then the sort.  The result carries the
\* exception raised (if any), the returned list and the number of draws made.
generate_recommendations(machine_data_, inventory_data_, operations_data_, g) ==
    LET crit == critical_machines(machine_data_)
        low == head(low_stock_products(inventory_data_), 3)
        med == head(medium_risk_machines(machine_data_), 2)
        bot == head(bottlenecks(operations_data_), 2)
        over == head(overstock_products(inventory_data_), 2)
        g1 == advance(g, 2 * Len(crit))
        g2 == advance(g1, 2 * Len(low))
        g3 == advance(g2, Len(med))
        failing == {k \in DOMAIN low : increase_pct_raises(low[k])}
        recommendations ==
            [k \in DOMAIN crit |-> CriticalRec(crit[k], advance(g, 2 * (k - 1)))]
            \o [k \in DOMAIN low |-> StockoutRec(low[k], advance(g1, 2 * (k - 1)))]
            \o [k \in DOMAIN med |-> MediumRec(med[k], advance(g2, k - 1))]
            \o [k \in DOMAIN bot |-> BottleneckRec(bot[k], advance(g3, 3 * (k - 1)))]
            \o [k \in DOMAIN over |-> OverstockRec(over[k])]
    IN  IF failing # {}
        THEN [raised |-> "ZeroDivisionError",
              value |-> <<>>,
              draws |-> 2 * Len(crit)
                        + 2 * (CHOOSE k \in failing : \A j \in failing : k <= j)]
        ELSE [raised |-> "none",
              value |-> sort_by_priority(recommendations),
              draws |-> 2 * Len(crit) + 2 * Len(low) + Len(med) + 3 * Len(bot)]

----------------------------------------------------------------------------
(* models/decision_engine.py : calculate_savings *)

\* savings without the operational part
calculate_savings_without_operational(machine_data_, inventory_data_, g) ==
    LET critical == Len(critical_machines(machine_data_))
        low_stock == Len(low_stock_products(inventory_data_))
    IN  critical * randint(g, 3000, 6000)
        + low_stock * randint(advance(g, 1), 1000, 2500)

calculate_savings(machine_data_, inventory_data_, g) ==
    LET critical == Len(critical_machines(machine_data_))
        maintenance_savings == critical * randint(g, 3000, 6000)
        low_stock == Len(low_stock_products(inventory_data_))
        inventory_savings == low_stock * randint(advance(g, 1), 1000, 2500)
        operational_savings == randint(advance(g, 2), 2000, 4000)
    IN  maintenance_savings + inventory_savings + operational_savings

SavingsDraws == 3

----------------------------------------------------------------------------
(* models/decision_engine.py : assess_implementation_difficulty *)

\* a classification by the first word of the category
assess_by_first_word(recommendation) ==
    LET category == recommendation.category
    IN  IF category = "Predictive Maintenance" THEN "Moderate"
        ELSE IF category \in {"Inventory Management", "Inventory Optimization"}
        THEN "Easy"
        ELSE IF category = "Operations Optimization" THEN "Difficult"
        ELSE "Moderate"

assess_implementation_difficulty(recommendation) ==
    LET category == recommendation.category
    IN  IF category = "Predictive Maintenance" THEN "Moderate"
        ELSE IF category = "Inventory Management" THEN "Easy"
        ELSE IF category = "Operations Optimization" THEN "Difficult"
        ELSE "Moderate"

----------------------------------------------------------------------------
(* utils/calculations.py : calculate_health_score *)

\* a temperature score whose ideal range reaches up to 80 degrees
temp_score2_lenient(m) ==
    IF m.temperature <= 800 THEN 200 ELSE Max(0, 200 - (m.temperature - 750))

\* 100 if x <= 75 else max(0, 100 - (x - 75) * 5), in halves of a point
temp_score2(m) ==
    IF m.temperature <= 750 THEN 200 ELSE Max(0, 200 - (m.temperature - 750))

\* 100 if x <= 2.5 else max(0, 100 - (x - 2.5) * 20)
vib_score1(m) ==
    IF m.vibration <= 25 THEN 100 ELSE Max(0, 100 - (m.vibration - 25) * 2)

\* 100 if x <= 3000 else max(0, 100 - (x - 3000) / 50), in fiftieths of a point
hours_score50(m) ==
    IF m.operational_hours <= 3000 THEN 5000
    ELSE Max(0, 5000 - (m.operational_hours - 3000))

\* mean(temp) * 0.40 + mean(vib) * 0.35 + mean(hours) * 0.25
calculate_health_score(machine_data_) ==
    LET n == Len(machine_data_)
        temp_sum == SumSeq([i \in DOMAIN machine_data_ |-> temp_score2(machine_data_[i])])
        vib_sum == SumSeq([i \in DOMAIN machine_data_ |-> vib_score1(machine_data_[i])])
        hours_sum == SumSeq([i \in DOMAIN machine_data_ |-> hours_score50(machine_data_[i])])
    IN  Rat(1000 * temp_sum + 1750 * vib_sum + 25 * hours_sum, 5000 * n)

----------------------------------------------------------------------------
(* models/demand_forecasting.py : calculate_inventory_health *)

\* inventory_data['stock_value'] = current_stock * unit_cost: the assignment
\* adds (or overwrites) a column of the caller's table
with_stock_value(inventory_data_) ==
    [i \in DOMAIN inventory_data_ |->
        [c \in (DOMAIN inventory_data_[i]) \cup {"stock_value"} |->
            IF c = "stock_value"
            THEN inventory_data_[i].current_stock * inventory_data_[i].unit_cost
            ELSE inventory_data_[i][c]]]

RECURSIVE MaxSeq(_)
MaxSeq(s) == IF Len(s) = 1 THEN s[1] ELSE Max(Head(s), MaxSeq(Tail(s)))

\* an adequacy that is not divided by the number of products
stock_adequacy_unnormalised(inventory_data_) ==
    LET above_safety ==
            Count(inventory_data_, LAMBDA p : p.current_stock >= p.safety_stock)
    IN  Rat(40 * above_safety, 1)

stock_adequacy(inventory_data_) ==
    LET above_safety ==
            Count(inventory_data_, LAMBDA p : p.current_stock >= p.safety_stock)
    IN  Rat(40 * above_safety, Len(inventory_data_))

turnover_score(inventory_data_) ==
    LET overstock ==
            Count(inventory_data_, LAMBDA p : p.current_stock > p.safety_stock * 3)
    IN  Rat(30 * (Len(inventory_data_) - overstock), Len(inventory_data_))

\* (1 - max_value_ratio) * 30 if max_value_ratio < 0.5 else 15; with a zero sum
\* the ratio is not a number, the comparison is false and the score is 15
distribution_score(inventory_data_) ==
    LET values == [i \in DOMAIN inventory_data_ |->
                      inventory_data_[i].current_stock * inventory_data_[i].unit_cost]
        total == SumSeq(values)
        largest == MaxSeq(values)
    IN  IF total > 0 /\ 2 * largest < total
        THEN Rat(30 * (total - largest), total)
        ELSE Rat(15, 1)

calculate_inventory_health(inventory_data_) ==
    RAdd(RAdd(stock_adequacy(inventory_data_), turnover_score(inventory_data_)),
         distribution_score(inventory_data_))

----------------------------------------------------------------------------
(* models/demand_forecasting.py : calculate_reorder_point *)

\* the largest r in lo .. hi with r * r <= x
RECURSIVE ISqrtBetween(_, _, _)
ISqrtBetween(x, lo, hi) ==
    IF lo = hi THEN lo
    ELSE LET mid == (lo + hi + 1) \div 2
         IN  IF mid * mid <= x THEN ISqrtBetween(x, mid, hi)
             ELSE ISqrtBetween(x, lo, mid - 1)

\* np.sqrt((2 * annual_demand * ordering_cost) / holding_cost) in whole units,
\* rounded down: 2 * 3650 * 100 / (unit_cost * 0.25) = 292000000 / cents
eoq(product_row) == ISqrtBetween(292000000 \div product_row.unit_cost, 0, 20000)

\* the deficit without its floor at zero
stock_deficit_signed(product_row) ==
    product_row.safety_stock - product_row.current_stock

\* max(0, safety_stock - current_stock)
stock_deficit(product_row) ==
    Max(0, product_row.safety_stock - product_row.current_stock)

calculate_reorder_point(product_row, g) ==
    LET avg_daily_demand == 10
        lead_time == product_row.lead_time_days
        safety_stock == product_row.safety_stock
        reorder_point == (avg_daily_demand * lead_time) + safety_stock
        predicted_demand == RMul(Rat(avg_daily_demand * 7, 1), uniform(g, 8, 12, 10))
        current_stock == product_row.current_stock
        reorder_quantity == eoq(product_row) + stock_deficit(product_row)
    IN  [reorder_point |-> reorder_point,
         reorder_quantity |-> reorder_quantity,
         economic_order_qty |-> eoq(product_row),
         predicted_demand |-> predicted_demand,
         safety_stock |-> safety_stock,
         lead_time |-> lead_time,
         current_stock |-> current_stock]

ReorderDraws == 1

----------------------------------------------------------------------------
(* models/maintenance_models.py : predict_failure *)

Clamp01(r) == RMax(Rat(0, 1), RMin(Rat(1, 1), r))

\* max(0, min(1, (temperature - 60) / 40))
temp_risk(machine) == Clamp01(Rat(machine.temperature - 600, 400))

\* max(0, min(1, vibration / 5))
vib_risk(machine) == Clamp01(Rat(machine.vibration, 50))

\* max(0, min(1, operational_hours / 10000))
hours_risk(machine) == Clamp01(Rat(machine.operational_hours, 10000))

\* temp_risk * 0.45 + vib_risk * 0.35 + hours_risk * 0.20
weighted_risk(machine) ==
    RAdd(RAdd(RMul(temp_risk(machine), Rat(45, 100)),
              RMul(vib_risk(machine), Rat(35, 100))),
         RMul(hours_risk(machine), Rat(20, 100)))

\* a noise of twice the amplitude
failure_noise_wide(g) == uniform(g, -2, 2, 10)

\* np.random.uniform(-0.1, 0.1)
failure_noise(g) == uniform(g, -1, 1, 10)

risk_level_of(failure_probability) ==
    IF RLt(Rat(6, 10), failure_probability) THEN "High"
    ELSE IF RLt(Rat(3, 10), failure_probability) THEN "Medium"
    ELSE "Low"

predict_failure(machine, g) ==
    LET failure_probability ==
            RMax(Rat(0, 1),
                 RMin(Rat(1, 1), RAdd(weighted_risk(machine), failure_noise(g))))
    IN  [failure_probability |-> failure_probability,
         risk_level |-> risk_level_of(failure_probability),
         feature_importance |-> <<45, 35, 20>>,
         temperature_risk |-> temp_risk(machine),
         vibration_risk |-> vib_risk(machine),
         hours_risk |-> hours_risk(machine)]

FailureDraws == 1

----------------------------------------------------------------------------
(* models/maintenance_models.py : estimate_rul *)

\* the degradation factors, in hundredths
temp_factor(machine) ==
    IF machine.temperature > 900 THEN 50
    ELSE IF machine.temperature > 850 THEN 70
    ELSE IF machine.temperature > 800 THEN 85
    ELSE 100

vib_factor(machine) ==
    IF machine.vibration > 40 THEN 60
    ELSE IF machine.vibration > 35 THEN 75
    ELSE IF machine.vibration > 30 THEN 90
    ELSE 100

\* base_rul_hours * temp_factor * vib_factor
base_times_factors(machine) ==
    Rat((10000 - machine.operational_hours)
            * temp_factor(machine) * vib_factor(machine), 10000)

\* the adjusted hours without the minimum of one day
adjusted_rul_hours_unfloored(machine) == base_times_factors(machine)

\* max(24, adjusted_rul_hours)
adjusted_rul_hours(machine) == RMax(Rat(24, 1), base_times_factors(machine))

\* max(0.7, min(0.95, 0.85 + np.random.uniform(-0.1, 0.1)))
rul_confidence(g) ==
    RMax(Rat(70, 100),
         RMin(Rat(95, 100), RAdd(Rat(85, 100), uniform(g, -1, 1, 10))))

\* now_ is datetime.now() in days; the maintenance date is a (fractional) day
estimate_rul(machine, now_, g) ==
    LET rul_hours == adjusted_rul_hours(machine)
        rul_days == RMul(rul_hours, Rat(1, 24))
    IN  [rul_hours |-> rul_hours,
         rul_days |-> rul_days,
         confidence |-> rul_confidence(g),
         maintenance_date |-> RAdd(Rat(now_, 1), rul_days),
         temp_factor |-> temp_factor(machine),
         vib_factor |-> vib_factor(machine)]

RulDraws == 1

----------------------------------------------------------------------------
(* models/maintenance_models.py : detect_anomalies *)

\* temperature outside temp_normal_range = (65, 85)
temp_anomaly(machine) == machine.temperature < 650 \/ machine.temperature > 850

\* vibration outside vib_normal_range = (0.5, 3.5)
vib_anomaly(machine) == machine.vibration < 5 \/ machine.vibration > 35

\* the distance from the normal temperature range over 20
temp_score(machine) ==
    IF machine.temperature > 850 THEN Rat(machine.temperature - 850, 200)
    ELSE IF machine.temperature < 650 THEN Rat(650 - machine.temperature, 200)
    ELSE Rat(0, 1)

\* a vibration score that measures the distance above the range only
vib_score_above_only(machine) ==
    IF machine.vibration > 35 THEN Rat(machine.vibration - 35, 20)
    ELSE Rat(0, 1)

\* the distance from the normal vibration range over 2
vib_score(machine) ==
    IF machine.vibration > 35 THEN Rat(machine.vibration - 35, 20)
    ELSE IF machine.vibration < 5 THEN Rat(5 - machine.vibration, 20)
    ELSE Rat(0, 1)

detect_anomalies(machine) ==
    [is_anomaly |-> temp_anomaly(machine) \/ vib_anomaly(machine),
     anomaly_score |-> RMin(Rat(1, 1), RMax(temp_score(machine), vib_score(machine))),
     temp_anomaly |-> temp_anomaly(machine),
     vib_anomaly |-> vib_anomaly(machine),
     detection_method |-> "Isolation Forest (Simulated)"]

----------------------------------------------------------------------------
(* utils/data_processing.py : generate_demo_data *)

ProductNames ==
    <<"Industrial Bearing Type A", "Steel Plates Grade B", "Hydraulic Pump Unit",
      "Electric Motor 5HP", "Control Panel Assembly", "Conveyor Belt Section",
      "Safety Valve Kit", "Lubricant Premium Grade", "Fastener Set M12",
      "Gasket Seal Pack", "Pressure Sensor Digital", "Cable Wire 10mm",
      "Junction Box IP67", "Filter Cartridge HEPA", "Coupling Flexible",
      "Switch Limit Type C", "Relay Module 24V", "Pneumatic Cylinder",
      "Solenoid Valve 2-way", "Bearing Housing Unit">>

OperationalAreas ==
    <<"Receiving Area", "Storage Zone A", "Storage Zone B", "Picking Area",
      "Packing Station", "Loading Area", "Quality Control", "Shipping Dock">>

\* Dates are ordinal days of a non-leap year whose 1 January is a Monday.
MonthDays == <<31, 28, 31, 30, 31, 30, 31, 31, 30, 31, 30, 31>>

RECURSIVE DayInMonth(_, _)
DayInMonth(d, month) ==
    IF d <= MonthDays[month] THEN d ELSE DayInMonth(d - MonthDays[month], month + 1)

\* date.day
day_of_month(d) == DayInMonth(d, 1)

\* date.dayofweek: Monday is 0, Saturday 5, Sunday 6
dayofweek(d) == (d - 1) % 7

\* a datetime value, and the text it becomes in a CSV file
Datetime(d) == [type |-> "datetime", day |-> d]
DateText(d) == [type |-> "str", day |-> d]

\* sin(day / 30 * 2 * pi) in millionths, day = 1 .. 31
SinMillionths ==
    <<207912, 406737, 587785, 743145, 866025, 951057, 994522, 994522, 951057,
      866025, 743145, 587785, 406737, 207912, 0, -207912, -406737, -587785,
      -743145, -866025, -951057, -994522, -994522, -951057, -866025, -743145,
      -587785, -406737, -207912, 0, 207912>>

\* int(base_demand * (1 + 0.1 * sin(date.day / 30 * 2 * pi)))
times_month_factor(base_demand, d) ==
    (base_demand * (10000000 + SinMillionths[day_of_month(d)])) \div 10000000

\* a uniform draw kept to one decimal (tenths) and to two (hundredths, round(2))
Tenths(r) == IntOf(RMul(r, Rat(10, 1)))
Hundredths(r) == Round0(RMul(r, Rat(100, 1)))

\* the generator state at the k-th draw after np.random.seed(42)
Seeded(k) == advance(seed(42), k)

\* a generator that is not reset: the draws start from the state it is in
DemandOf_unseeded(g, k, d) ==
    LET drawn == randint(advance(g, k), 5, 20)
        base_demand == IF dayofweek(d) \in {5, 6} THEN (drawn * 6) \div 10 ELSE drawn
    IN  Max(0, times_month_factor(base_demand, d) + randint(advance(g, k + 1), -3, 4))

\* one demand value: the draws at k and k + 1, for the date d
DemandOf(g, k, d) ==
    LET drawn == randint(Seeded(k), 5, 20)
        base_demand == IF dayofweek(d) \in {5, 6} THEN (drawn * 6) \div 10 ELSE drawn
    IN  Max(0, times_month_factor(base_demand, d) + randint(Seeded(k + 1), -3, 4))

\* the number of draws of one call
DemoDraws ==
    4 * DemoProducts + 3 * DemoMachines + 2 * DemoProducts * DemoDays + 5 * DemoAreas

\* g is the generator state at the call, which np.random.seed(42) discards
generate_demo_data(today_, g) ==
    LET n == DemoProducts
        m == DemoMachines
        a == DemoAreas
        at_machines == 4 * n
        at_demand == 4 * n + 3 * m
        at_operations == 4 * n + 3 * m + 2 * n * DemoDays
        inventory_df ==
            [i \in 1 .. n |->
                [product_id |-> i,
                 product_name |-> ProductNames[i],
                 current_stock |-> randint(Seeded(i - 1), 30, 300),
                 safety_stock |-> randint(Seeded(n + i - 1), 50, 100),
                 lead_time_days |-> randint(Seeded(2 * n + i - 1), 3, 14),
                 unit_cost |-> Hundredths(uniform(Seeded(3 * n + i - 1), 10, 500, 1))]]
        machines_df ==
            [i \in 1 .. m |->
                [machine_id |-> i,
                 machine_name |-> <<"Machine", i>>,
                 temperature |-> Tenths(uniform(Seeded(at_machines + i - 1), 65, 95, 1)),
                 vibration |-> Tenths(uniform(Seeded(at_machines + m + i - 1), 8, 45, 10)),
                 operational_hours |->
                     randint(Seeded(at_machines + 2 * m + i - 1), 1000, 8000),
                 last_maintenance |-> Datetime(today_ - 45 * (m - i))]]
        demand_df ==
            [r \in 1 .. n * DemoDays |->
                LET product_id == ((r - 1) \div DemoDays) + 1
                    j == ((r - 1) % DemoDays) + 1
                    date == today_ - (DemoDays - j)
                IN  [date |-> Datetime(date),
                     product_id |-> product_id,
                     demand |-> DemandOf(g, at_demand + 2 * (r - 1), date)]]
        operations_df ==
            [i \in 1 .. a |->
                [area |-> OperationalAreas[i],
                 utilization |-> Tenths(uniform(Seeded(at_operations + i - 1), 60, 95, 1)),
                 productivity_score |->
                     Tenths(uniform(Seeded(at_operations + a + i - 1), 70, 95, 1)),
                 downtime_hours |->
                     Tenths(uniform(Seeded(at_operations + 2 * a + i - 1), 5, 35, 10)),
                 efficiency_rate |->
                     Tenths(uniform(Seeded(at_operations + 3 * a + i - 1), 75, 95, 1)),
                 throughput |-> randint(Seeded(at_operations + 4 * a + i - 1), 100, 500)]]
    IN  [value |-> <<inventory_df, machines_df, demand_df, operations_df>>,
         rng |-> Seeded(DemoDraws)]

----------------------------------------------------------------------------
(* utils/data_processing.py : load_data and save_data *)

INVENTORY_CSV == "data/inventory_data.csv"
MACHINERY_CSV == "data/machinery_data.csv"
DEMAND_CSV == "data/demand_history.csv"
OPERATIONS_CSV == "data/operations_data.csv"
Paths == {INVENTORY_CSV, MACHINERY_CSV, DEMAND_CSV, OPERATIONS_CSV}

Absent == [exists |-> FALSE, rows |-> <<>>]
Present(rows) == [exists |-> TRUE, rows |-> rows]

\* DataFrame.to_csv: a datetime column is written as text
to_csv(df, date_column) ==
    [i \in DOMAIN df |->
        [c \in DOMAIN df[i] |->
            IF c = date_column THEN DateText(df[i][c].day) ELSE df[i][c]]]

\* pd.read_csv: every column as it stands in the file, dates as text
read_csv(file) == file.rows

\* pd.to_datetime on a column
to_datetime(df, date_column) ==
    [i \in DOMAIN df |->
        [c \in DOMAIN df[i] |->
            IF c = date_column THEN Datetime(df[i][c].day) ELSE df[i][c]]]

\* the four files save_data writes
save_data(inventory_df, machines_df, demand_df, operations_df) ==
    (INVENTORY_CSV :> Present(to_csv(inventory_df, "none")))
    @@ (MACHINERY_CSV :> Present(to_csv(machines_df, "last_maintenance")))
    @@ (DEMAND_CSV :> Present(to_csv(demand_df, "date")))
    @@ (OPERATIONS_CSV :> Present(to_csv(operations_df, "none")))

\* a fallback that regenerates only the tables whose file is missing
load_data_mixed(files_, today_, g) ==
    LET demo == generate_demo_data(today_, g)
    IN  IF \A p \in Paths : files_[p].exists
        THEN [raised |-> "none",
              value |-> <<read_csv(files_[INVENTORY_CSV]),
                          read_csv(files_[MACHINERY_CSV]),
                          to_datetime(read_csv(files_[DEMAND_CSV]), "date"),
                          read_csv(files_[OPERATIONS_CSV])>>,
              rng |-> g]
        ELSE [raised |-> "none",
              value |-> <<IF files_[INVENTORY_CSV].exists
                          THEN read_csv(files_[INVENTORY_CSV]) ELSE demo.value[1],
                          IF files_[MACHINERY_CSV].exists
                          THEN read_csv(files_[MACHINERY_CSV]) ELSE demo.value[2],
                          IF files_[DEMAND_CSV].exists
                          THEN to_datetime(read_csv(files_[DEMAND_CSV]), "date")
                          ELSE demo.value[3],
                          IF files_[OPERATIONS_CSV].exists
                          THEN read_csv(files_[OPERATIONS_CSV]) ELSE demo.value[4]>>,
              rng |-> demo.rng]

\* The four reads in order; the first missing file raises FileNotFoundError,
\* which the handler answers with generate_demo_data().
load_data(files_, today_, g) ==
    IF ~files_[INVENTORY_CSV].exists \/ ~files_[MACHINERY_CSV].exists
       \/ ~files_[DEMAND_CSV].exists \/ ~files_[OPERATIONS_CSV].exists
    THEN LET demo == generate_demo_data(today_, g)
         IN  [raised |-> "none", value |-> demo.value, rng |-> demo.rng]
    ELSE [raised |-> "none",
          value |-> <<read_csv(files_[INVENTORY_CSV]),
                      read_csv(files_[MACHINERY_CSV]),
                      to_datetime(read_csv(files_[DEMAND_CSV]), "date"),
                      read_csv(files_[OPERATIONS_CSV])>>,
          rng |-> g]

----------------------------------------------------------------------------
(* models/demand_forecasting.py : forecast_demand *)

\* float('inf'); the comparisons and sums of the rationals above extend to it
Infinity == [num |-> 1, den |-> 0]

\* a / b for b # 0
RDiv(a, b) ==
    IF b.num > 0 THEN Rat(a.num * b.den, a.den * b.num)
    ELSE Rat(-(a.num * b.den), -(a.den * b.num))

\* np.random.normal(loc, scale): a value spread symmetrically around loc
normal(g, loc, scale) == Rat(loc + scale * (2 * g - (RngMod - 1)), 1)

\* np.random.poisson(lam): a non-negative count around lam
poisson(g, lam) == lam - 10 + ((20 * g) \div RngMod)

\* the sample generated when the product has no history: SampleDays days up
\* to now, the poisson draws first and the randint draws after them
sample_demand(today_, g) ==
    [k \in 1 .. SampleDays |->
        [date |-> Datetime(today_ - (SampleDays - k)),
         demand |-> poisson(advance(g, k - 1), 150)
                    + randint(advance(g, SampleDays + k - 1), -20, 20)]]

\* sort_values('date'): the row at position k is the one with k - 1 rows
\* before it, by date and then by the order in the table
sort_values(df) ==
    LET before(i) ==
            Cardinality({j \in DOMAIN df :
                            \/ df[j].date.day < df[i].date.day
                            \/ (df[j].date.day = df[i].date.day /\ j < i)})
    IN  [k \in DOMAIN df |-> df[CHOOSE i \in DOMAIN df : before(i) = k - 1]]

\* Series.tail(n)
tail(s, n) == SubSeq(s, Max(1, Len(s) - n + 1), Len(s))

\* Series.mean() of integers
mean(values) == Rat(SumSeq(values), Len(values))

\* np.polyfit(range(n), y, 1)[0] for n >= 2: the least-squares slope
polyfit_slope(y) ==
    LET n == Len(y)
        Sx == SumSeq([i \in 1 .. n |-> i - 1])
        Sxx == SumSeq([i \in 1 .. n |-> (i - 1) * (i - 1)])
        Sy == SumSeq(y)
        Sxy == SumSeq([i \in 1 .. n |-> (i - 1) * y[i]])
    IN  Rat(n * Sxy - Sx * Sy, n * Sxx - Sx * Sx)

\* groupby('day_of_week')['demand'].mean()
weekly_pattern(product_demand) ==
    [w \in {dayofweek(product_demand[i].date.day) : i \in DOMAIN product_demand} |->
        LET of_day == SelectSeq(product_demand, LAMBDA r : dayofweek(r.date.day) = w)
        IN  mean([i \in DOMAIN of_day |-> of_day[i].demand])]

\* recent_demand.std(), the population deviation, to one decimal rounded down
std_dev(y) ==
    LET n == Len(y)
        Sy == SumSeq(y)
        Syy == SumSeq([i \in 1 .. n |-> y[i] * y[i]])
    IN  Rat(ISqrtBetween(100 * (n * Syy - Sy * Sy), 0, 40000), 10 * n)

\* max(0, base_forecast * seasonal_factor + noise).  With last_demand 0 the
\* division of two numpy floats gives nan or an infinity: max(0, nan) and
\* max(0, -inf) are 0, max(0, inf) is inf.
one_forecast(base_forecast, pattern, day_of_week, last_demand, noise) ==
    IF last_demand.num # 0
    THEN LET seasonal_factor ==
                 IF day_of_week \in DOMAIN pattern
                 THEN RDiv(pattern[day_of_week], last_demand)
                 ELSE Rat(1, 1)
         IN  RMax(Rat(0, 1), RAdd(RMul(base_forecast, seasonal_factor), noise))
    ELSE IF day_of_week \notin DOMAIN pattern
    THEN RMax(Rat(0, 1), RAdd(base_forecast, noise))
    ELSE IF pattern[day_of_week].num * base_forecast.num > 0
    THEN Infinity
    ELSE Rat(0, 1)

\* The whole function.  With a single record of the product np.polyfit scales
\* the column of x = [0] by its norm 0; the least-squares solver is then given
\* a matrix with a nan: it either fails (LinAlgError) or returns a nan trend,
\* and lstsq_fails says which.
forecast_demand(demand_data_, product_id, days_ahead, today_, g, lstsq_fails) ==
    LET filtered == SelectSeq(demand_data_, LAMBDA r : r.product_id = product_id)
        sampled == Len(filtered) = 0
        product_demand ==
            sort_values(IF sampled THEN sample_demand(today_, g) ELSE filtered)
        g_loop == IF sampled THEN advance(g, 2 * SampleDays) ELSE g
        demand_column == [i \in DOMAIN product_demand |-> product_demand[i].demand]
        recent_demand == tail(demand_column, RecentWindow)
        single == Len(recent_demand) = 1
        trend == IF single THEN Rat(0, 1) ELSE polyfit_slope(recent_demand)
        pattern == weekly_pattern(product_demand)
        last_demand == mean(recent_demand)
        last_date == product_demand[Len(product_demand)].date.day
        forecast_dates == [i \in 1 .. days_ahead |-> Datetime(last_date + i)]
        forecast_values ==
            [i \in 1 .. days_ahead |->
                IF single THEN Rat(0, 1)
                ELSE one_forecast(RAdd(last_demand, RMul(trend, Rat(i - 1, 1))),
                                  pattern, dayofweek(last_date + i), last_demand,
                                  normal(advance(g_loop, i - 1), 0, 5))]
        spread == RMul(Rat(196, 100), std_dev(recent_demand))
    IN  IF single /\ lstsq_fails
        THEN [raised |-> "LinAlgError", value |-> <<>>, rng |-> g_loop]
        ELSE [raised |-> "none",
              value |->
                [historical_dates |->
                     [i \in DOMAIN product_demand |-> product_demand[i].date],
                 historical_demand |-> demand_column,
                 forecast_dates |-> forecast_dates,
                 forecast_demand |-> forecast_values,
                 confidence_upper |->
                     [i \in 1 .. days_ahead |-> RAdd(forecast_values[i], spread)],
                 confidence_lower |->
                     [i \in 1 .. days_ahead |->
                         RMax(Rat(0, 1), RSub(forecast_values[i], spread))],
                 trend |-> IF single THEN "nan" ELSE trend,
                 avg_demand |-> last_demand],
              rng |-> advance(g_loop, days_ahead)]

----------------------------------------------------------------------------
(* utils/calculations.py : the ratio utilities *)

\* an estimate that counts the machines above 90 degrees
calculate_mtbf_above_90(machine_data_) ==
    LET total_operating_hours ==
            SumSeq([i \in DOMAIN machine_data_ |-> machine_data_[i].operational_hours])
        critical == Count(machine_data_, LAMBDA m : m.temperature > 900)
    IN  IF critical = 0 THEN Infinity
        ELSE Rat(2 * total_operating_hours, 3 * critical)

\* total_operating_hours / (critical_machines * 1.5)
calculate_mtbf(machine_data_) ==
    LET total_operating_hours ==
            SumSeq([i \in DOMAIN machine_data_ |-> machine_data_[i].operational_hours])
        critical == Count(machine_data_, LAMBDA m : m.temperature > 850)
    IN  IF critical = 0 THEN Infinity
        ELSE Rat(2 * total_operating_hours, 3 * critical)

\* annual_demand is None: 365 * 10 * len(inventory_data); unit_cost in cents
calculate_inventory_turnover(inventory_data_) ==
    LET annual_demand == 365 * 10 * Len(inventory_data_)
        cost_sum == SumSeq([i \in DOMAIN inventory_data_ |-> inventory_data_[i].unit_cost])
        avg_inventory_value ==
            SumSeq([i \in DOMAIN inventory_data_ |->
                       inventory_data_[i].current_stock * inventory_data_[i].unit_cost])
    IN  IF avg_inventory_value = 0 THEN Rat(0, 1)
        ELSE Rat((annual_demand \div Len(inventory_data_)) * cost_sum,
                 avg_inventory_value)

calculate_days_of_inventory(inventory_turnover) ==
    IF inventory_turnover.num = 0 THEN Infinity
    ELSE RDiv(Rat(365, 1), inventory_turnover)

calculate_fill_rate(demand_met, total_demand) ==
    IF total_demand = 0 THEN Rat(100, 1) ELSE Rat(demand_met * 100, total_demand)

calculate_service_level(orders_fulfilled, total_orders) ==
    IF total_orders = 0 THEN Rat(100, 1) ELSE Rat(orders_fulfilled * 100, total_orders)

calculate_warehouse_utilization(used_space, total_space) ==
    IF total_space = 0 THEN Rat(0, 1) ELSE Rat(used_space * 100, total_space)

calculate_labor_productivity(units_processed, labor_hours) ==
    IF labor_hours = 0 THEN Rat(0, 1) ELSE Rat(units_processed, labor_hours)

calculate_cost_per_unit(total_cost, units_produced) ==
    IF units_produced = 0 THEN Rat(0, 1) ELSE Rat(total_cost, units_produced)

calculate_maintenance_efficiency(planned_maintenance_hours, total_maintenance_hours) ==
    IF total_maintenance_hours = 0 THEN Rat(100, 1)
    ELSE Rat(planned_maintenance_hours * 100, total_maintenance_hours)

----------------------------------------------------------------------------
(* The tables the functions are applied to *)

Temperatures == {700, 850, 900}
Vibrations == {20, 40}
Stocks == {0, 50, 300}
Utilizations == {700, 900}

MachineRows(i, temps, vibs) ==
    {[machine_id |-> i, machine_name |-> <<"Machine", i>>,
      temperature |-> t, vibration |-> v, operational_hours |-> 2000]
        : t \in temps, v \in vibs}

ProductRows(i, stocks) ==
    {[product_id |-> i, product_name |-> <<"Product", i>>,
      current_stock |-> s, safety_stock |-> 100,
      lead_time_days |-> 5, unit_cost |-> 1000]
        : s \in stocks}

AreaRows(i, utils) ==
    {[area |-> <<"Area", i>>, utilization |-> u, efficiency_rate |-> 800]
        : u \in utils}

RECURSIVE MachineTablesOfLen(_, _, _)
MachineTablesOfLen(n, temps, vibs) ==
    IF n = 0 THEN {<<>>}
    ELSE {Append(t, r) : t \in MachineTablesOfLen(n - 1, temps, vibs),
                         r \in MachineRows(n, temps, vibs)}

RECURSIVE ProductTablesOfLen(_, _)
ProductTablesOfLen(n, stocks) ==
    IF n = 0 THEN {<<>>}
    ELSE {Append(t, r) : t \in ProductTablesOfLen(n - 1, stocks),
                         r \in ProductRows(n, stocks)}

RECURSIVE AreaTablesOfLen(_, _)
AreaTablesOfLen(n, utils) ==
    IF n = 0 THEN {<<>>}
    ELSE {Append(t, r) : t \in AreaTablesOfLen(n - 1, utils),
                         r \in AreaRows(n, utils)}

\* the non-empty tables within the bounds
MachineTables(temps, vibs) ==
    UNION {MachineTablesOfLen(n, temps, vibs) : n \in 1 .. MaxMachines}
ProductTables(stocks) ==
    UNION {ProductTablesOfLen(n, stocks) : n \in 1 .. MaxProducts}
AreaTables(utils) ==
    UNION {AreaTablesOfLen(n, utils) : n \in 1 .. MaxAreas}

NoReturn == [fn |-> "none", raised |-> "none", value |-> <<>>]
EmptyCache == [filled |-> FALSE, value |-> <<>>]
NoFiles == <<>>

----------------------------------------------------------------------------
(* The scoring functions called on arbitrary tables, sharing the generator *)

InitScoring ==
    /\ machine_data \in MachineTables({700, 900}, Vibrations)
    /\ inventory_data \in ProductTables(Stocks)
    /\ operations_data \in AreaTablesOfLen(1, {900})
    /\ demand_data = <<>>
    /\ rng \in RngStates
    /\ ret = NoReturn
    /\ prev_ret = NoReturn
    /\ session_state = <<>>
    /\ selected = "Factory Overview"
    /\ data_cache = EmptyCache
    /\ files = NoFiles
    /\ today = 0

Call_calculate_risk_score ==
    /\ ret' = [fn |-> "calculate_risk_score", raised |-> "none",
               value |-> calculate_risk_score(machine_data, inventory_data, rng)]
    /\ rng' = advance(rng, RiskDraws)
    /\ UNCHANGED <<tables, prev_ret, session, environment>>

Call_generate_recommendations ==
    LET r == generate_recommendations(machine_data, inventory_data,
                                      operations_data, rng)
    IN  /\ ret' = [fn |-> "generate_recommendations", raised |-> r.raised,
                   value |-> r.value]
        /\ rng' = advance(rng, r.draws)
        /\ UNCHANGED <<tables, prev_ret, session, environment>>

Call_calculate_savings ==
    /\ ret' = [fn |-> "calculate_savings", raised |-> "none",
               value |-> calculate_savings(machine_data, inventory_data, rng)]
    /\ rng' = advance(rng, SavingsDraws)
    /\ UNCHANGED <<tables, prev_ret, session, environment>>

Call_calculate_health_score ==
    /\ ret' = [fn |-> "calculate_health_score", raised |-> "none",
               value |-> calculate_health_score(machine_data)]
    /\ UNCHANGED <<tables, rng, prev_ret, session, environment>>

Call_calculate_inventory_health ==
    /\ ret' = [fn |-> "calculate_inventory_health", raised |-> "none",
               value |-> calculate_inventory_health(inventory_data)]
    /\ inventory_data' = with_stock_value(inventory_data)
    /\ UNCHANGED <<machine_data, operations_data, demand_data, rng, prev_ret,
                   session, environment>>

NextScoring ==
    \/ Call_calculate_risk_score
    \/ Call_generate_recommendations
    \/ Call_calculate_savings
    \/ Call_calculate_health_score
    \/ Call_calculate_inventory_health

SpecScoring == InitScoring /\ [][NextScoring]_vars

\* C1: for non-empty machine and inventory tables and every operational noise
\* in [5, 15), calculate_risk_score returns a value in [0, 100].
C1_RiskScoreInRange ==
    ret.fn = "calculate_risk_score" =>
        /\ RLeq(Rat(0, 1), ret.value)
        /\ RLeq(ret.value, Rat(100, 1))

\* a risk score above 85: every machine hot and vibrating, every product low
C1_Witness ==
    /\ ret.fn = "calculate_risk_score"
    /\ RLt(Rat(85, 1), ret.value)

\* C8: a call to a scoring function leaves the tables passed in with the same
\* columns and the same values.
C8_ArgumentsUnchanged ==
    [][/\ machine_data' = machine_data
       /\ inventory_data' = inventory_data
       /\ operations_data' = operations_data]_vars

\* C20: every priority-1 recommendation says that the vibration exceeds the
\* safe threshold, and the machine it is emitted for has a vibration above
\* the threshold of 3.5 mm/s of calculate_risk_score and detect_anomalies;
\* the failure probability it quotes is at most 100 percent.
C20_VibrationAboveThreshold ==
    (ret.fn = "generate_recommendations" /\ ret.raised = "none") =>
        \A k \in DOMAIN ret.value :
            ret.value[k].priority = 1 =>
                /\ ret.value[k].reason[5] = "Vibration exceeds safe threshold"
                /\ ret.value[k].reason[6] > 35
                /\ ret.value[k].reason[4] <= 100

----------------------------------------------------------------------------
(* The per-product function applied to one arbitrary product row *)

RowStocks == {0, 50, 100, 300}
RowSafetyStocks == {0, 100}
RowLeadTimes == {3, 13}
RowUnitCosts == {1, 1000, 50000}

ProductRowInputs ==
    {[product_id |-> 1, product_name |-> <<"Product", 1>>,
      current_stock |-> s, safety_stock |-> ss,
      lead_time_days |-> l, unit_cost |-> c]
        : s \in RowStocks, ss \in RowSafetyStocks,
          l \in RowLeadTimes, c \in RowUnitCosts}

InitProductRow ==
    /\ machine_data = <<>>
    /\ inventory_data \in {<<p>> : p \in ProductRowInputs}
    /\ operations_data = <<>>
    /\ demand_data = <<>>
    /\ rng \in RngStates
    /\ ret = NoReturn
    /\ prev_ret = NoReturn
    /\ session_state = <<>>
    /\ selected = "Factory Overview"
    /\ data_cache = EmptyCache
    /\ files = NoFiles
    /\ today = 0

Call_calculate_reorder_point ==
    /\ ret' = [fn |-> "calculate_reorder_point", raised |-> "none",
               value |-> calculate_reorder_point(inventory_data[1], rng)]
    /\ rng' = advance(rng, ReorderDraws)
    /\ UNCHANGED <<tables, prev_ret, session, environment>>

NextProductRow == Call_calculate_reorder_point

SpecProductRow == InitProductRow /\ [][NextProductRow]_vars

\* C2: for a product row with a positive unit_cost the economic_order_qty is
\* non-negative, reorder_quantity = economic_order_qty + max(0, safety_stock -
\* current_stock), which is never below the EOQ, and reorder_point =
\* 10 * lead_time_days + safety_stock.
C2_ReorderPoint ==
    (ret.fn = "calculate_reorder_point" /\ inventory_data[1].unit_cost > 0) =>
        LET p == inventory_data[1]
            r == ret.value
        IN  /\ r.economic_order_qty >= 0
            /\ r.reorder_quantity
                 = r.economic_order_qty + Max(0, p.safety_stock - p.current_stock)
            /\ r.reorder_quantity >= r.economic_order_qty
            /\ r.reorder_point = 10 * p.lead_time_days + p.safety_stock

\* a product above its safety stock, whose deficit is floored at zero, and
\* unit cost 10.00: EOQ = floor(sqrt(292000)) = 540
C2_Witness ==
    /\ ret.fn = "calculate_reorder_point"
    /\ inventory_data[1].current_stock > inventory_data[1].safety_stock
    /\ inventory_data[1].unit_cost = 1000
    /\ ret.value.economic_order_qty = 540
    /\ ret.value.reorder_quantity = 540

----------------------------------------------------------------------------
(* The per-machine functions applied to one arbitrary machine row *)

RowTemperatures == {550, 600, 650, 850, 900, 1000, 1050}
RowVibrations == {0, 5, 25, 35, 50, 60}
RowHours == {0, 5000, 10000, 12000}

MachineRowInputs ==
    {[machine_id |-> 1, machine_name |-> <<"Machine", 1>>,
      temperature |-> t, vibration |-> v, operational_hours |-> h]
        : t \in RowTemperatures, v \in RowVibrations, h \in RowHours}

InitMachineRow ==
    /\ machine_data \in {<<m>> : m \in MachineRowInputs}
    /\ inventory_data = <<>>
    /\ operations_data = <<>>
    /\ demand_data = <<>>
    /\ rng \in RngStates
    /\ ret = NoReturn
    /\ prev_ret = NoReturn
    /\ session_state = <<>>
    /\ selected = "Predictive Maintenance"
    /\ data_cache = EmptyCache
    /\ files = NoFiles
    /\ today = 0

Call_predict_failure ==
    /\ ret' = [fn |-> "predict_failure", raised |-> "none",
               value |-> predict_failure(machine_data[1], rng)]
    /\ rng' = advance(rng, FailureDraws)
    /\ UNCHANGED <<tables, prev_ret, session, environment>>

Call_estimate_rul ==
    /\ ret' = [fn |-> "estimate_rul", raised |-> "none",
               value |-> estimate_rul(machine_data[1], today, rng)]
    /\ rng' = advance(rng, RulDraws)
    /\ UNCHANGED <<tables, prev_ret, session, environment>>

Call_detect_anomalies ==
    /\ ret' = [fn |-> "detect_anomalies", raised |-> "none",
               value |-> detect_anomalies(machine_data[1])]
    /\ UNCHANGED <<tables, rng, prev_ret, session, environment>>

NextMachineRow ==
    \/ Call_predict_failure
    \/ Call_estimate_rul
    \/ Call_detect_anomalies

SpecMachineRow == InitMachineRow /\ [][NextMachineRow]_vars

\* the weighted score recomputed from the component risks that were returned
WeightedOf(r) ==
    RAdd(RAdd(RMul(r.temperature_risk, Rat(45, 100)),
              RMul(r.vibration_risk, Rat(35, 100))),
         RMul(r.hours_risk, Rat(20, 100)))

InUnit(r) == RLeq(Rat(0, 1), r) /\ RLeq(r, Rat(1, 1))

\* C10: predict_failure returns a failure_probability in [0, 1] within 0.1
\* of 0.45*temperature_risk + 0.35*vibration_risk + 0.20*hours_risk, each
\* component risk in [0, 1]; risk_level is 'High' exactly above 0.6, 'Medium'
\* exactly above 0.3 and at most 0.6, 'Low' otherwise; a weighted score above
\* 0.7 gives 'High' and one below 0.2 gives 'Low'.
C10_FailureProbability ==
    ret.fn = "predict_failure" =>
        LET r == ret.value
            fp == r.failure_probability
            w == WeightedOf(r)
        IN  /\ InUnit(fp)
            /\ InUnit(r.temperature_risk)
            /\ InUnit(r.vibration_risk)
            /\ InUnit(r.hours_risk)
            /\ RLeq(RSub(fp, w), Rat(1, 10))
            /\ RLeq(RSub(w, fp), Rat(1, 10))
            /\ (r.risk_level = "High") <=> RLt(Rat(6, 10), fp)
            /\ (r.risk_level = "Medium") <=> (RLt(Rat(3, 10), fp) /\ RLeq(fp, Rat(6, 10)))
            /\ (r.risk_level = "Low") <=> RLeq(fp, Rat(3, 10))
            /\ RLt(Rat(7, 10), w) => r.risk_level = "High"
            /\ RLt(w, Rat(2, 10)) => r.risk_level = "Low"

\* a weighted score above 0.7 with the most negative noise, still 'High'
C10_Witness ==
    /\ ret.fn = "predict_failure"
    /\ RLt(Rat(7, 10), WeightedOf(ret.value))
    /\ RLt(ret.value.failure_probability, WeightedOf(ret.value))
    /\ RLt(ret.value.failure_probability, Rat(7, 10))
    /\ ret.value.risk_level = "High"

\* C11: for every machine row, also one at or above 10000 operational hours,
\* estimate_rul returns rul_hours >= 24, rul_days = rul_hours / 24 >= 1 and a
\* confidence in [0.7, 0.95]; the maintenance date is at least one day after
\* the call.
C11_RulAtLeastOneDay ==
    ret.fn = "estimate_rul" =>
        LET r == ret.value
        IN  /\ RLeq(Rat(24, 1), r.rul_hours)
            /\ REq(RMul(r.rul_days, Rat(24, 1)), r.rul_hours)
            /\ RLeq(Rat(1, 1), r.rul_days)
            /\ RLeq(Rat(7, 10), r.confidence)
            /\ RLeq(r.confidence, Rat(95, 100))
            /\ RLeq(Rat(today + 1, 1), r.maintenance_date)

\* a machine past its 10000 hours: the floor of one day applies
C11_Witness ==
    /\ ret.fn = "estimate_rul"
    /\ machine_data[1].operational_hours > 10000
    /\ ret.value.rul_hours = Rat(24, 1)
    /\ ret.value.rul_days = Rat(1, 1)
    /\ ret.value.maintenance_date = Rat(today + 1, 1)

\* C12: detect_anomalies returns is_anomaly true exactly when the temperature
\* is outside [65, 85] or the vibration outside [0.5, 3.5]; anomaly_score is
\* in [0, 1] and is greater than 0 exactly when is_anomaly is true.
C12_AnomalyFlagAndScore ==
    ret.fn = "detect_anomalies" =>
        LET m == machine_data[1]
            r == ret.value
        IN  /\ r.is_anomaly <=> (\/ m.temperature < 650 \/ m.temperature > 850
                                 \/ m.vibration < 5 \/ m.vibration > 35)
            /\ RLeq(Rat(0, 1), r.anomaly_score)
            /\ RLeq(r.anomaly_score, Rat(1, 1))
            /\ RLt(Rat(0, 1), r.anomaly_score) <=> r.is_anomaly

\* a machine at the upper temperature limit whose vibration is below the
\* range: an anomaly of score 0.25
C12_Witness ==
    /\ ret.fn = "detect_anomalies"
    /\ machine_data[1].temperature = 850
    /\ machine_data[1].vibration = 0
    /\ ret.value.is_anomaly
    /\ ret.value.anomaly_score = Rat(1, 4)

----------------------------------------------------------------------------
(* The functions of utils/calculations.py that take the whole machine table *)

TableTemperatures == {750, 760, 1000}
TableVibrations == {25, 26, 80}
TableHours == {3000, 3050, 9000}

MachineRowsWithHours(i) ==
    {[machine_id |-> i, machine_name |-> <<"Machine", i>>,
      temperature |-> t, vibration |-> v, operational_hours |-> h]
        : t \in TableTemperatures, v \in TableVibrations, h \in TableHours}

RECURSIVE MachineTablesWithHoursOfLen(_)
MachineTablesWithHoursOfLen(n) ==
    IF n = 0 THEN {<<>>}
    ELSE {Append(t, r) : t \in MachineTablesWithHoursOfLen(n - 1),
                         r \in MachineRowsWithHours(n)}

InitMachineTable ==
    /\ machine_data \in UNION {MachineTablesWithHoursOfLen(n) : n \in 1 .. MaxMachines}
    /\ inventory_data = <<>>
    /\ operations_data = <<>>
    /\ demand_data = <<>>
    /\ rng = 0
    /\ ret = NoReturn
    /\ prev_ret = NoReturn
    /\ session_state = <<>>
    /\ selected = "Factory Overview"
    /\ data_cache = EmptyCache
    /\ files = NoFiles
    /\ today = 0

NextMachineTable ==
    \/ Call_calculate_health_score

SpecMachineTable == InitMachineTable /\ [][NextMachineTable]_vars

\* C13: for a non-empty machine table calculate_health_score returns a value
\* in [0, 100], and exactly 100 if and only if every machine has temperature
\* at most 75, vibration at most 2.5 and operational_hours at most 3000.
C13_HealthScore ==
    ret.fn = "calculate_health_score" =>
        /\ RLeq(Rat(0, 1), ret.value)
        /\ RLeq(ret.value, Rat(100, 1))
        /\ REq(ret.value, Rat(100, 1))
            <=> \A i \in DOMAIN machine_data :
                    /\ machine_data[i].temperature <= 750
                    /\ machine_data[i].vibration <= 25
                    /\ machine_data[i].operational_hours <= 3000

\* a score just below 100: every reading at its limit but one temperature,
\* one degree above
C13_Witness ==
    /\ ret.fn = "calculate_health_score"
    /\ Len(machine_data) = 1
    /\ machine_data[1].temperature = 760
    /\ machine_data[1].vibration = 25
    /\ machine_data[1].operational_hours = 3000
    /\ ret.value = Rat(98, 1)

----------------------------------------------------------------------------
(* calculate_inventory_health on inventory tables of up to MaxHealthProducts *)
(* products                                                                  *)

HealthStocks == {0, 50, 100, 400}

InitInventoryTable ==
    /\ machine_data = <<>>
    /\ inventory_data \in UNION {ProductTablesOfLen(n, HealthStocks)
                                    : n \in 1 .. MaxHealthProducts}
    /\ operations_data = <<>>
    /\ demand_data = <<>>
    /\ rng = 0
    /\ ret = NoReturn
    /\ prev_ret = NoReturn
    /\ session_state = <<>>
    /\ selected = "Ingredients Intelligence"
    /\ data_cache = EmptyCache
    /\ files = NoFiles
    /\ today = 0

NextInventoryTable == Call_calculate_inventory_health

SpecInventoryTable == InitInventoryTable /\ [][NextInventoryTable]_vars

\* current_stock * unit_cost summed over the table
TotalStockValue(inventory_data_) ==
    SumSeq([i \in DOMAIN inventory_data_ |->
               inventory_data_[i].current_stock * inventory_data_[i].unit_cost])

\* C14: for a non-empty inventory table with non-negative stock and cost and a
\* positive total stock value, calculate_inventory_health returns a score in
\* [0, 100]: the stock adequacy part is at most 40, the turnover part at most
\* 30 and the value distribution part at most 30.
C14_InventoryHealth ==
    (ret.fn = "calculate_inventory_health" /\ TotalStockValue(inventory_data) > 0) =>
        /\ RLeq(Rat(0, 1), ret.value)
        /\ RLeq(ret.value, Rat(100, 1))
        /\ RLeq(stock_adequacy(inventory_data), Rat(40, 1))
        /\ RLeq(turnover_score(inventory_data), Rat(30, 1))
        /\ RLeq(distribution_score(inventory_data), Rat(30, 1))
        /\ ret.value = RAdd(RAdd(stock_adequacy(inventory_data),
                                 turnover_score(inventory_data)),
                            distribution_score(inventory_data))

\* three products of equal value: no one holds half of the total, the
\* distribution part is 20 and the score 90
C14_Witness ==
    /\ ret.fn = "calculate_inventory_health"
    /\ Len(inventory_data) = 3
    /\ TotalStockValue(inventory_data) > 0
    /\ distribution_score(inventory_data) = Rat(20, 1)
    /\ ret.value = Rat(90, 1)

----------------------------------------------------------------------------
(* forecast_demand on demand histories of up to MaxHistory records *)

HistoryDemands == {0, 10, 14}
HistoryDays == (FirstDay - 2) .. FirstDay

\* the histories of product 1: records on distinct days, in any order
RECURSIVE HistoriesOfLen(_)
HistoriesOfLen(n) ==
    IF n = 0 THEN {<<>>}
    ELSE {Append(h, [date |-> Datetime(d), product_id |-> 1, demand |-> v])
            : h \in HistoriesOfLen(n - 1), d \in HistoryDays, v \in HistoryDemands}

DistinctDays(h) ==
    \A i, j \in DOMAIN h : i # j => h[i].date # h[j].date

Histories ==
    {h \in UNION {HistoriesOfLen(n) : n \in 0 .. MaxHistory} : DistinctDays(h)}

InitForecast ==
    /\ machine_data = <<>>
    /\ inventory_data = <<>>
    /\ operations_data = <<>>
    /\ demand_data \in Histories
    /\ rng \in RngStates
    /\ ret = NoReturn
    /\ prev_ret = NoReturn
    /\ session_state = <<>>
    /\ selected = "Ingredients Intelligence"
    /\ data_cache = EmptyCache
    /\ files = NoFiles
    /\ today = FirstDay

Call_forecast_demand ==
    \E product_id \in {1, 2}, days_ahead \in 1 .. MaxDaysAhead,
       lstsq_fails \in BOOLEAN :
        LET r == forecast_demand(demand_data, product_id, days_ahead, today, rng,
                                 lstsq_fails)
        IN  /\ ret' = [fn |-> "forecast_demand", raised |-> r.raised,
                       value |-> r.value, product_id |-> product_id,
                       days_ahead |-> days_ahead]
            /\ rng' = r.rng
            /\ UNCHANGED <<tables, prev_ret, session, environment>>

NextForecast == Call_forecast_demand

SpecForecast == InitForecast /\ [][NextForecast]_vars

\* C15: for every demand history and every days_ahead >= 1 forecast_demand
\* returns exactly days_ahead forecast values, on consecutive days from the
\* day after the last historical date; every forecast value is non-negative,
\* and at every index 0 <= confidence_lower <= forecast_demand <=
\* confidence_upper.
C15_ForecastShape ==
    ret.fn = "forecast_demand" =>
        /\ ret.raised = "none"
        /\ LET r == ret.value
               last == r.historical_dates[Len(r.historical_dates)].day
           IN  /\ Len(r.forecast_demand) = ret.days_ahead
               /\ Len(r.forecast_dates) = ret.days_ahead
               /\ \A i \in 1 .. ret.days_ahead :
                    /\ r.forecast_dates[i] = Datetime(last + i)
                    /\ RLeq(Rat(0, 1), r.forecast_demand[i])
                    /\ RLeq(Rat(0, 1), r.confidence_lower[i])
                    /\ RLeq(r.confidence_lower[i], r.forecast_demand[i])
                    /\ RLeq(r.forecast_demand[i], r.confidence_upper[i])

----------------------------------------------------------------------------
(* Loading, generating and saving the data while the days pass *)

\* tables saved a week earlier and edited since: no stock, no throughput
EarlierTables ==
    LET d == generate_demo_data(FirstDay - 7, 0).value
    IN  <<[i \in DOMAIN d[1] |-> [d[1][i] EXCEPT !.current_stock = 0]],
          d[2],
          d[3],
          [i \in DOMAIN d[4] |-> [d[4][i] EXCEPT !.throughput = 0]]>>

SavedFiles ==
    save_data(EarlierTables[1], EarlierTables[2], EarlierTables[3], EarlierTables[4])

InitData ==
    /\ machine_data = <<>>
    /\ inventory_data = <<>>
    /\ operations_data = <<>>
    /\ demand_data = <<>>
    /\ rng \in RngStates
    /\ ret = NoReturn
    /\ prev_ret = NoReturn
    /\ session_state = <<>>
    /\ selected = "Factory Overview"
    /\ data_cache = EmptyCache
    /\ files \in {[p \in Paths |-> IF p \in kept THEN SavedFiles[p] ELSE Absent]
                    : kept \in SUBSET Paths}
    /\ today = FirstDay

Call_load_data ==
    LET r == load_data(files, today, rng)
    IN  /\ ret' = [fn |-> "load_data", raised |-> r.raised, value |-> r.value,
                   rng |-> r.rng]
        /\ prev_ret' = ret
        /\ rng' = r.rng
        /\ UNCHANGED <<tables, session, environment>>

Call_generate_demo_data ==
    LET r == generate_demo_data(today, rng)
    IN  /\ ret' = [fn |-> "generate_demo_data", raised |-> "none",
                   value |-> r.value, rng |-> r.rng]
        /\ prev_ret' = ret
        /\ rng' = r.rng
        /\ UNCHANGED <<tables, session, environment>>

\* save_data applied to the four tables the last call returned
Call_save_data ==
    /\ ret.fn \in {"load_data", "generate_demo_data"}
    /\ files' = save_data(ret.value[1], ret.value[2], ret.value[3], ret.value[4])
    /\ UNCHANGED <<tables, rng, ret, prev_ret, session, today>>

\* datetime.now() moves on to the next day
NextDay ==
    /\ today < FirstDay + MaxDays
    /\ today' = today + 1
    /\ UNCHANGED <<tables, rng, ret, prev_ret, session, files>>

NextData ==
    \/ Call_load_data
    \/ Call_generate_demo_data
    \/ Call_save_data
    \/ NextDay

SpecData == InitData /\ [][NextData]_vars

\* C3: load_data never fails because a file is missing: with any of the four
\* files absent it returns the four tables of generate_demo_data (never a mix
\* of loaded and generated tables), with all four present the loaded tables.
C3_LoadOrGenerate ==
    [][Call_load_data =>
        /\ ret'.raised = "none"
        /\ IF \E p \in Paths : ~files[p].exists
           THEN ret'.value = generate_demo_data(today, rng).value
           ELSE ret'.value = <<files[INVENTORY_CSV].rows,
                               files[MACHINERY_CSV].rows,
                               to_datetime(files[DEMAND_CSV].rows, "date"),
                               files[OPERATIONS_CSV].rows>>]_vars

\* load_data has answered with generated tables while three files were there
C3_Witness ==
    /\ ret.fn = "load_data"
    /\ ret.raised = "none"
    /\ files[INVENTORY_CSV].exists
    /\ files[MACHINERY_CSV].exists
    /\ files[DEMAND_CSV].exists
    /\ ~files[OPERATIONS_CSV].exists
    /\ ret.value = generate_demo_data(today, 0).value
    /\ ret.value[1] # files[INVENTORY_CSV].rows

\* the columns of the four tables that are drawn at random, demand apart
DrawnFields(v) ==
    <<[i \in DOMAIN v[1] |-> <<v[1][i].current_stock, v[1][i].safety_stock,
                               v[1][i].lead_time_days, v[1][i].unit_cost>>],
      [i \in DOMAIN v[2] |-> <<v[2][i].temperature, v[2][i].vibration,
                               v[2][i].operational_hours>>],
      [i \in DOMAIN v[4] |-> <<v[4][i].utilization, v[4][i].productivity_score,
                               v[4][i].downtime_hours, v[4][i].efficiency_rate,
                               v[4][i].throughput>>]>>

DemandValues(v) == [i \in DOMAIN v[3] |-> v[3][i].demand]
LastDate(v) == v[3][Len(v[3])].date

TwoGenerations ==
    ret.fn = "generate_demo_data" /\ prev_ret.fn = "generate_demo_data"

\* C9 as stated: any two calls of generate_demo_data return the same stock,
\* safety stock, lead time, unit cost, temperature, vibration, hours, demand
\* and operations values, and leave the generator in the same state.
C9_SameValues ==
    TwoGenerations =>
        /\ DrawnFields(ret.value) = DrawnFields(prev_ret.value)
        /\ DemandValues(ret.value) = DemandValues(prev_ret.value)
        /\ ret.rng = prev_ret.rng

\* C9 amended: the demand values agree when the two calls are made on the
\* same date; all other drawn values and the generator state agree always.
C9_SameValuesSameDay ==
    TwoGenerations =>
        /\ DrawnFields(ret.value) = DrawnFields(prev_ret.value)
        /\ LastDate(ret.value) = LastDate(prev_ret.value)
            => DemandValues(ret.value) = DemandValues(prev_ret.value)
        /\ ret.rng = prev_ret.rng
        /\ rng = ret.rng

\* two generations on different days with different demand values
C9_Witness ==
    /\ TwoGenerations
    /\ LastDate(ret.value) # LastDate(prev_ret.value)
    /\ DemandValues(ret.value) # DemandValues(prev_ret.value)
    /\ DrawnFields(ret.value) = DrawnFields(prev_ret.value)

----------------------------------------------------------------------------
(* app.py : one run of the script per interaction *)

Pages ==
    {"Factory Overview", "Ingredients Intelligence", "Production Lines",
     "Predictive Maintenance", "Robotics Monitoring", "AI Decision Center"}

\* st.session_state.get(key, default) and st.session_state[key] = value
get(ss, key, default) == IF key \in DOMAIN ss THEN ss[key] ELSE default
put(ss, key, value) ==
    [k \in (DOMAIN ss) \cup {key} |-> IF k = key THEN value ELSE ss[k]]

\* if 'theme' not in st.session_state: st.session_state.theme = 'light'
init_theme(ss) == IF "theme" \in DOMAIN ss THEN ss ELSE put(ss, "theme", "light")

\* a button that switches the dark theme on and never off
toggle_theme_to_dark(ss) == put(ss, "theme", "dark")

\* st.session_state.theme = 'dark' if st.session_state.theme == 'light' else 'light'
toggle_theme(ss) ==
    put(ss, "theme", IF ss["theme"] = "light" THEN "dark" ELSE "light")

\* the draws of load_factory_data: 20 ingredients (4 columns), 8 lines
\* (4 machine and 5 operations columns) and 2 draws for each of 20 * 180 demands
FactoryDraws == 4 * 20 + 4 * 8 + 5 * 8 + 2 * 20 * 180

\* @st.cache_data load_factory_data(): the first call seeds the generator,
\* draws the tables and fills the cache; later calls return the cached tables.
\* produced stands for the tables the first call builds.
load_factory_data(cache, produced, g) ==
    IF cache.filled
    THEN [cache |-> cache, rng |-> g]
    ELSE [cache |-> [filled |-> TRUE, value |-> produced],
          rng |-> advance(seed(42), FactoryDraws)]

\* machine_data['machine_name'].str.contains('Robot')
robots(machine_data_) == SelectSeq(machine_data_, LAMBDA m : m.machine_name[1] = "Robot")

ProductionTrendDraws == 24

\* the draws of a page other than the AI Decision Center
page_draws(page, machine_data_) ==
    CASE page = "Factory Overview" -> RiskDraws
      [] page = "Ingredients Intelligence" -> 0
      [] page = "Production Lines" -> ProductionTrendDraws
      [] page = "Predictive Maintenance" -> FailureDraws + RulDraws
      [] page = "Robotics Monitoring" -> RulDraws * Len(robots(machine_data_))

\* an export that writes the rows in the reverse order
recommendations_csv_reversed(recs) ==
    IF recs = <<>> THEN [header |-> <<>>, lines |-> <<>>]
    ELSE [header |-> <<"priority", "category", "action", "reason", "impact",
                       "timeline", "ai_methods">>,
          lines |-> [k \in DOMAIN recs |->
                        LET r == recs[Len(recs) + 1 - k]
                        IN  <<r.priority, r.category, r.action, r.reason,
                              r.impact, r.timeline, r.ai_methods>>]]

\* pd.DataFrame(recommendations).to_csv(index=False): a header of the keys and
\* one line per recommendation, in list order
recommendations_csv(recs) ==
    IF recs = <<>> THEN [header |-> <<>>, lines |-> <<>>]
    ELSE [header |-> <<"priority", "category", "action", "reason", "impact",
                       "timeline", "ai_methods">>,
          lines |-> [k \in DOMAIN recs |->
                        <<recs[k].priority, recs[k].category, recs[k].action,
                          recs[k].reason, recs[k].impact, recs[k].timeline,
                          recs[k].ai_methods>>]]

NoSummary == [shown |-> FALSE, cards |-> <<>>, csv |-> <<>>, monthly_savings |-> 0]

\* a Generate handler that also keeps the savings figure in the session
store_recommendations_and_savings(ss, recs) ==
    put(put(put(ss, "recommendations", recs), "recommendations_generated", TRUE),
        "monthly_savings", 0)

\* a Generate handler that appends to the list the session already holds
store_recommendations_appended(ss, recs) ==
    put(put(ss, "recommendations", get(ss, "recommendations", <<>>) \o recs),
        "recommendations_generated", TRUE)

\* st.session_state['recommendations'] = recommendations
\* st.session_state['recommendations_generated'] = True
store_recommendations(ss, recs) ==
    put(put(ss, "recommendations", recs), "recommendations_generated", TRUE)

\* the AI Decision Center page from the generator state g on
decision_center(ss, mach, inv, ops, g, press_generate) ==
    LET g_risk == advance(g, RiskDraws)
        r == generate_recommendations(mach, inv, ops, g_risk)
        generated == press_generate /\ r.raised = "none"
        ss_gen == IF generated THEN store_recommendations(ss, r.value) ELSE ss
        g_gen == IF press_generate THEN advance(g_risk, r.draws) ELSE g_risk
    IN  IF press_generate /\ r.raised # "none"
        THEN [session_state |-> ss, rng |-> g_gen, raised |-> r.raised,
              summary |-> NoSummary]
        ELSE IF get(ss_gen, "recommendations_generated", FALSE)
        THEN [session_state |-> ss_gen,
              rng |-> advance(g_gen, SavingsDraws),
              raised |-> "none",
              summary |-> [shown |-> TRUE,
                           cards |-> ss_gen["recommendations"],
                           csv |-> recommendations_csv(ss_gen["recommendations"]),
                           monthly_savings |-> calculate_savings(mach, inv, g_gen)]]
        ELSE [session_state |-> ss_gen, rng |-> g_gen, raised |-> "none",
              summary |-> NoSummary]

\* One complete run of the script: theme initialisation, the cached load, the
\* sidebar with its risk score, then the selected page.
run_script(ss, page, cache, produced, g, press_generate) ==
    LET ss1 == init_theme(ss)
        loaded == load_factory_data(cache, produced, g)
        inv == loaded.cache.value[1]
        mach == loaded.cache.value[2]
        ops == loaded.cache.value[3]
        g_sidebar == advance(loaded.rng, RiskDraws)
        center == decision_center(ss1, mach, inv, ops, g_sidebar, press_generate)
    IN  IF page = "AI Decision Center"
        THEN [session_state |-> center.session_state,
              data_cache |-> loaded.cache,
              rng |-> center.rng,
              view |-> [fn |-> "render", raised |-> center.raised,
                        value |-> [theme |-> ss1["theme"], page |-> page,
                                   summary |-> center.summary]]]
        ELSE [session_state |-> ss1,
              data_cache |-> loaded.cache,
              rng |-> advance(g_sidebar, page_draws(page, mach)),
              view |-> [fn |-> "render", raised |-> "none",
                        value |-> [theme |-> ss1["theme"], page |-> page,
                                   summary |-> NoSummary]]]

\* the tables the script works on are the cached ones
Shown(run, page) ==
    /\ session_state' = run.session_state
    /\ data_cache' = run.data_cache
    /\ rng' = run.rng
    /\ ret' = run.view
    /\ selected' = page
    /\ inventory_data' = run.data_cache.value[1]
    /\ machine_data' = run.data_cache.value[2]
    /\ operations_data' = run.data_cache.value[3]
    /\ UNCHANGED <<demand_data, environment>>

Apply(run, page) == Shown(run, page) /\ UNCHANGED prev_ret

InitApp ==
    /\ machine_data = <<>>
    /\ inventory_data = <<>>
    /\ operations_data = <<>>
    /\ demand_data = <<>>
    /\ rng \in RngStates
    /\ ret = NoReturn
    /\ prev_ret = NoReturn
    /\ session_state = <<>>
    /\ selected = "Factory Overview"
    /\ data_cache = EmptyCache
    /\ files = NoFiles
    /\ today = 0

\* 'current_stock': np.random.randint(50, 400, ...): the stocks that
\* load_factory_data draws are at least 50, below or above the safety stock
AppStocks == {50, 300}

\* the browser opens the dashboard: the first run of the session
OpenSession ==
    /\ DOMAIN session_state = {}
    /\ \E inv \in ProductTables(AppStocks),
          mach \in MachineTablesOfLen(1, {700, 900}, {40}),
          ops \in AreaTablesOfLen(1, {900}) :
            Apply(run_script(session_state, selected, data_cache,
                             <<inv, mach, ops>>, rng, FALSE), selected)

\* a page is chosen in the navigation menu
SelectPage ==
    /\ DOMAIN session_state # {}
    /\ \E page \in Pages :
            Apply(run_script(session_state, page, data_cache,
                             data_cache.value, rng, FALSE), page)

\* the theme button: the flag is flipped and st.rerun() starts the run again
ToggleTheme ==
    /\ DOMAIN session_state # {}
    /\ Apply(run_script(toggle_theme(init_theme(session_state)), selected,
                        data_cache, data_cache.value, rng, FALSE), selected)

\* the Generate button of the AI Decision Center
PressGenerate ==
    /\ DOMAIN session_state # {}
    /\ selected = "AI Decision Center"
    /\ Apply(run_script(session_state, selected, data_cache,
                        data_cache.value, rng, TRUE), selected)

\* any other widget (select box, download, PDF or e-mail button)
OtherInteraction ==
    /\ DOMAIN session_state # {}
    /\ Apply(run_script(session_state, selected, data_cache,
                        data_cache.value, rng, FALSE), selected)

NextApp ==
    \/ OpenSession
    \/ SelectPage
    \/ ToggleTheme
    \/ PressGenerate
    \/ OtherInteraction

SpecApp == InitApp /\ [][NextApp]_vars

SessionKeys == {"theme", "recommendations", "recommendations_generated"}

\* C4 as stated: across the interactions the only shared state that changes
\* is the theme flag and the recommendations cache of the session (the load
\* of the tables by the first run set aside).
C4_OnlySessionChanges ==
    [][data_cache.filled =>
        /\ DOMAIN session_state' \subseteq SessionKeys
        /\ rng' = rng
        /\ data_cache' = data_cache
        /\ machine_data' = machine_data
        /\ inventory_data' = inventory_data
        /\ operations_data' = operations_data]_vars

\* C4 amended: besides the theme flag and the recommendations cache, a run
\* changes the state of the process-wide generator (every scoring and
\* recommendation function draws from it) and, on the first run only, fills
\* the data cache; the cached tables never change afterwards.
C4_SessionGeneratorAndCache ==
    [][/\ DOMAIN session_state' \subseteq SessionKeys
       /\ data_cache'.filled
       /\ data_cache.filled =>
            /\ data_cache' = data_cache
            /\ machine_data' = machine_data
            /\ inventory_data' = inventory_data
            /\ operations_data' = operations_data
       /\ UNCHANGED <<prev_ret, files, today>>]_vars

\* a session with a dark theme and generated recommendations
C4_Witness ==
    /\ data_cache.filled
    /\ "recommendations_generated" \in DOMAIN session_state
    /\ session_state["theme"] = "dark"
    /\ Len(session_state["recommendations"]) > 0
    /\ ret.fn = "render"

\* the rows of a CSV text read back as records, by the names in the header
RowsOf(csv) ==
    [k \in DOMAIN csv.lines |->
        [c \in {csv.header[i] : i \in DOMAIN csv.header} |->
            csv.lines[k][CHOOSE i \in DOMAIN csv.header : csv.header[i] = c]]]

\* C16: the CSV download of the AI Decision Center holds exactly the
\* recommendations of the session cache, one row per recommendation in the
\* order of the cards of that render, and is offered only when
\* recommendations have been generated in the session.
C16_CsvIsTheCache ==
    (ret.fn = "render" /\ ret.raised = "none" /\ ret.value.summary.shown) =>
        LET s == ret.value.summary
        IN  /\ ret.value.page = "AI Decision Center"
            /\ get(session_state, "recommendations_generated", FALSE)
            /\ Len(s.csv.lines) = Len(session_state["recommendations"])
            /\ RowsOf(s.csv) = session_state["recommendations"]
            /\ RowsOf(s.csv) = s.cards

\* a render that offers a download of several recommendations of different
\* priorities
C16_Witness ==
    /\ ret.fn = "render"
    /\ ret.raised = "none"
    /\ ret.value.summary.shown
    /\ Len(ret.value.summary.csv.lines) >= 2
    /\ ret.value.summary.csv.lines[1][1] = 1
    /\ ret.value.summary.csv.lines[Len(ret.value.summary.cards)][1] = 3

\* the recommendations cache of a session: the keys it holds of the two the
\* Generate button writes, with their values
recommendations_cache(ss) ==
    [k \in (DOMAIN ss) \cap {"recommendations", "recommendations_generated"} |-> ss[k]]

\* C22: the theme flag is 'light' after the first run of a session and is
\* always 'light' or 'dark'; a press of the theme button flips it, and the
\* render that the restart completes uses the new theme; a second press gives
\* the theme back; a press leaves the recommendations cache as it was, and no
\* other interaction changes the theme.
C22_ThemeToggle ==
    [][/\ "theme" \in DOMAIN session_state'
       /\ session_state'["theme"] \in {"light", "dark"}
       /\ DOMAIN session_state = {} => session_state'["theme"] = "light"
       /\ ToggleTheme =>
            /\ session_state'["theme"] # session_state["theme"]
            /\ session_state' = toggle_theme(session_state)
            /\ toggle_theme(session_state') = session_state
            /\ ret'.fn = "render"
            /\ ret'.raised = "none"
            /\ ret'.value.theme = session_state'["theme"]
            /\ recommendations_cache(session_state')
                    = recommendations_cache(session_state)
       /\ (DOMAIN session_state # {} /\ ~ToggleTheme) =>
            session_state'["theme"] = session_state["theme"]]_vars

\* the AI Decision Center rendered in the dark theme with the cards of a
\* cache that was filled before
C22_Witness ==
    /\ ret.fn = "render"
    /\ ret.raised = "none"
    /\ ret.value.theme = "dark"
    /\ session_state["theme"] = "dark"
    /\ ret.value.page = "AI Decision Center"
    /\ ret.value.summary.shown
    /\ Len(ret.value.summary.cards) >= 2

\* C23: recommendations_generated being true implies that a recommendations
\* list is stored; the flag is false until the first press of the Generate
\* button and never returns to false; a press replaces the stored list with
\* the list generated by that run (after the two risk scores of the sidebar
\* and the page have drawn), and the render of that run shows the new list;
\* a run without a press leaves the stored list unchanged.
C23_RecommendationsCache ==
    [][/\ get(session_state', "recommendations_generated", FALSE)
            => "recommendations" \in DOMAIN session_state'
       /\ get(session_state, "recommendations_generated", FALSE)
            => get(session_state', "recommendations_generated", FALSE)
       /\ PressGenerate =>
            LET r == generate_recommendations(machine_data, inventory_data,
                                              operations_data,
                                              advance(rng, 2 * RiskDraws))
            IN  /\ r.raised = "none"
                /\ get(session_state', "recommendations_generated", FALSE)
                /\ session_state'["recommendations"] = r.value
                /\ ret'.raised = "none"
                /\ ret'.value.summary.shown
                /\ ret'.value.summary.cards = r.value
       /\ ~PressGenerate =>
            recommendations_cache(session_state')
                = recommendations_cache(session_state)]_vars

\* a page other than the AI Decision Center rendered in a session that holds
\* a generated list of several recommendations
C23_Witness ==
    /\ ret.fn = "render"
    /\ ret.value.page = "Production Lines"
    /\ get(session_state, "recommendations_generated", FALSE)
    /\ Len(session_state["recommendations"]) >= 2
    /\ ~ret.value.summary.shown

----------------------------------------------------------------------------
(* The dashboard seen by a viewer who keeps the render before the current   *)
(* one: the same runs as above, with the last view kept in prev_ret         *)

View(ss, page, produced, press_generate) ==
    /\ Shown(run_script(ss, page, data_cache, produced, rng, press_generate), page)
    /\ prev_ret' = ret

ViewOpenSession ==
    /\ DOMAIN session_state = {}
    /\ \E inv \in ProductTables(AppStocks),
          mach \in MachineTablesOfLen(1, {700, 900}, {40}),
          ops \in AreaTablesOfLen(1, {900}) :
            View(session_state, selected, <<inv, mach, ops>>, FALSE)

ViewSelectPage ==
    /\ DOMAIN session_state # {}
    /\ \E page \in Pages :
            View(session_state, page, data_cache.value, FALSE)

ViewToggleTheme ==
    /\ DOMAIN session_state # {}
    /\ View(toggle_theme(init_theme(session_state)), selected,
            data_cache.value, FALSE)

ViewPressGenerate ==
    /\ DOMAIN session_state # {}
    /\ selected = "AI Decision Center"
    /\ View(session_state, selected, data_cache.value, TRUE)

ViewOtherInteraction ==
    /\ DOMAIN session_state # {}
    /\ View(session_state, selected, data_cache.value, FALSE)

NextViews ==
    \/ ViewOpenSession
    \/ ViewSelectPage
    \/ ViewToggleTheme
    \/ ViewPressGenerate
    \/ ViewOtherInteraction

SpecViews == InitApp /\ [][NextViews]_vars

\* the generator state that the summary of the current render drew from: the
\* run ended SavingsDraws draws later
BeforeSavings(g) == advance(g, RngMod - (SavingsDraws % RngMod))

\* C24: the potential monthly savings of a render are at least 2000 and lie
\* between 3000*c + 1000*l + 2000 and 5999*c + 2499*l + 3999 for c machines
\* above 85 degrees and l products below their safety stock; the figure is not
\* a key of the session but is drawn by calculate_savings in the render that
\* shows it.
C24_SavingsRecomputed ==
    (ret.fn = "render" /\ ret.raised = "none" /\ ret.value.summary.shown) =>
        LET c == Count(machine_data, LAMBDA m : m.temperature > 850)
            l == Count(inventory_data, LAMBDA p : p.current_stock < p.safety_stock)
            shown == ret.value.summary.monthly_savings
        IN  /\ shown >= 2000
            /\ shown >= 3000 * c + 1000 * l + 2000
            /\ shown <= 5999 * c + 2499 * l + 3999
            /\ DOMAIN session_state \subseteq SessionKeys
            /\ shown = calculate_savings(machine_data, inventory_data,
                                         BeforeSavings(rng))

\* two renders in a row that show the same cached recommendations and
\* different potential monthly savings
C24_Witness ==
    /\ ret.fn = "render"
    /\ prev_ret.fn = "render"
    /\ ret.value.summary.shown
    /\ prev_ret.value.summary.shown
    /\ Len(ret.value.summary.cards) >= 2
    /\ ret.value.summary.cards = prev_ret.value.summary.cards
    /\ ret.value.summary.monthly_savings # prev_ret.value.summary.monthly_savings

----------------------------------------------------------------------------
(* generate_recommendations invoked again and again on the same tables; the *)
(* caller keeps the list of the invocation before.                          *)

InitRecs ==
    /\ machine_data \in MachineTables(Temperatures, {40})
    /\ inventory_data \in ProductTables(Stocks)
    /\ operations_data \in AreaTables(Utilizations)
    /\ demand_data = <<>>
    /\ rng \in RngStates
    /\ ret = NoReturn
    /\ prev_ret = NoReturn
    /\ session_state = <<>>
    /\ selected = "Factory Overview"
    /\ data_cache = EmptyCache
    /\ files = NoFiles
    /\ today = 0

Invoke_generate_recommendations ==
    LET r == generate_recommendations(machine_data, inventory_data,
                                      operations_data, rng)
    IN  /\ ret' = [fn |-> "generate_recommendations", raised |-> r.raised,
                   value |-> r.value]
        /\ prev_ret' = ret
        /\ rng' = advance(rng, r.draws)
        /\ UNCHANGED <<tables, session, environment>>

NextRecs == Invoke_generate_recommendations

SpecRecs == InitRecs /\ [][NextRecs]_vars

IsStockout(rec) == rec.priority = 2 /\ rec.category = "Inventory Management"
IsMedium(rec) == rec.priority = 2 /\ rec.category = "Predictive Maintenance"
IsBottleneck(rec) == rec.priority = 3 /\ rec.category = "Operations Optimization"
IsOverstock(rec) == rec.priority = 3 /\ rec.category = "Inventory Optimization"

\* the row number inside the name that the action text ends with
RowOf(rec) == rec.action[2][2]

\* C5: the returned list is ordered by non-decreasing priority and equal
\* priorities keep their generation order: stockouts before medium-risk
\* machines, bottlenecks before overstock, rows of one loop in table order.
C5_SortedAndStable ==
    (ret.fn = "generate_recommendations" /\ ret.raised = "none") =>
        \A i, j \in DOMAIN ret.value :
            i < j =>
                /\ ret.value[i].priority <= ret.value[j].priority
                /\ ~(IsMedium(ret.value[i]) /\ IsStockout(ret.value[j]))
                /\ ~(IsOverstock(ret.value[i]) /\ IsBottleneck(ret.value[j]))
                /\ (/\ ret.value[i].priority = ret.value[j].priority
                    /\ ret.value[i].category = ret.value[j].category)
                        => RowOf(ret.value[i]) < RowOf(ret.value[j])

\* a list that holds a recommendation of every one of the five kinds
C5_Witness ==
    /\ ret.fn = "generate_recommendations"
    /\ ret.raised = "none"
    /\ \E a, b, c, d, e \in DOMAIN ret.value :
            /\ ret.value[a].priority = 1
            /\ IsStockout(ret.value[b])
            /\ IsMedium(ret.value[c])
            /\ IsBottleneck(ret.value[d])
            /\ IsOverstock(ret.value[e])

\* what two invocations on the same tables must agree on
Fixed(recs) ==
    [k \in DOMAIN recs |->
        <<recs[k].priority, recs[k].category, recs[k].action, recs[k].ai_methods>>]

\* C6: two invocations on the same three tables give the same number of
\* recommendations and the same sequence of (priority, category, action,
\* ai_methods); only the drawn numbers in the texts can differ.
C6_SameShape ==
    (ret.fn = "generate_recommendations" /\ prev_ret.fn = "generate_recommendations") =>
        /\ ret.raised = prev_ret.raised
        /\ Len(ret.value) = Len(prev_ret.value)
        /\ Fixed(ret.value) = Fixed(prev_ret.value)

\* two invocations whose lists differ in the drawn numbers
C6_Witness ==
    /\ ret.fn = "generate_recommendations"
    /\ prev_ret.fn = "generate_recommendations"
    /\ ret.raised = "none"
    /\ Len(ret.value) > 1
    /\ ret.value # prev_ret.value

\* C7: for non-empty tables with non-negative stock generate_recommendations
\* returns a list without raising, also when a low-stock product has
\* current_stock 0.
C7_NeverRaises ==
    ret.fn = "generate_recommendations" => ret.raised = "none"

----------------------------------------------------------------------------
(* assess_implementation_difficulty applied to the recommendations that     *)
(* generate_recommendations returns, and to recommendations of other        *)
(* categories                                                               *)

OtherCategories == {"Quality Control", ""}

InitDifficulty ==
    /\ machine_data \in MachineTablesOfLen(1, Temperatures, {40})
    /\ inventory_data \in ProductTablesOfLen(1, {50, 300})
    /\ operations_data \in AreaTablesOfLen(1, Utilizations)
    /\ demand_data = <<>>
    /\ rng \in RngStates
    /\ ret = NoReturn
    /\ prev_ret = NoReturn
    /\ session_state = <<>>
    /\ selected = "AI Decision Center"
    /\ data_cache = EmptyCache
    /\ files = NoFiles
    /\ today = 0

\* the caller passes one recommendation of the list it holds, or one of its
\* own under another category
Call_assess_implementation_difficulty ==
    /\ ret.fn = "generate_recommendations"
    /\ ret.raised = "none"
    /\ \E k \in DOMAIN ret.value :
        \E c \in OtherCategories \cup {ret.value[k].category} :
            LET recommendation == [ret.value[k] EXCEPT !.category = c]
            IN  ret' = [fn |-> "assess_implementation_difficulty",
                        raised |-> "none",
                        value |-> assess_implementation_difficulty(recommendation),
                        recommendation |-> recommendation]
    /\ prev_ret' = ret
    /\ UNCHANGED <<tables, rng, session, environment>>

NextDifficulty ==
    \/ Invoke_generate_recommendations
    \/ Call_assess_implementation_difficulty

SpecDifficulty == InitDifficulty /\ [][NextDifficulty]_vars

\* C17: assess_implementation_difficulty answers for every category with one
\* of 'Easy', 'Moderate', 'Difficult': 'Predictive Maintenance' gives
\* 'Moderate', 'Inventory Management' 'Easy', 'Operations Optimization'
\* 'Difficult', and every other category, the 'Inventory Optimization' of
\* generate_recommendations included, 'Moderate'.
C17_Difficulty ==
    ret.fn = "assess_implementation_difficulty" =>
        LET category == ret.recommendation.category
        IN  /\ ret.raised = "none"
            /\ ret.value \in {"Easy", "Moderate", "Difficult"}
            /\ category = "Predictive Maintenance" => ret.value = "Moderate"
            /\ category = "Inventory Management" => ret.value = "Easy"
            /\ category = "Operations Optimization" => ret.value = "Difficult"
            /\ category \notin {"Predictive Maintenance", "Inventory Management",
                                "Operations Optimization"} => ret.value = "Moderate"

\* an overstock recommendation as generate_recommendations returned it
C17_Witness ==
    /\ ret.fn = "assess_implementation_difficulty"
    /\ prev_ret.fn = "generate_recommendations"
    /\ \E k \in DOMAIN prev_ret.value : prev_ret.value[k] = ret.recommendation
    /\ ret.recommendation.category = "Inventory Optimization"
    /\ ret.value = "Moderate"

----------------------------------------------------------------------------
(* The ratio utilities of utils/calculations.py, called on the tables and on *)
(* amounts that include zero                                                 *)

Amounts == 0 .. MaxAmount

RatioUtilities ==
    {"calculate_fill_rate", "calculate_service_level",
     "calculate_warehouse_utilization", "calculate_labor_productivity",
     "calculate_cost_per_unit", "calculate_maintenance_efficiency"}

InitRatios ==
    /\ machine_data \in MachineTables({700, 900}, {40})
    /\ inventory_data \in ProductTables({0, 50})
    /\ operations_data = <<>>
    /\ demand_data = <<>>
    /\ rng = 0
    /\ ret = NoReturn
    /\ prev_ret = NoReturn
    /\ session_state = <<>>
    /\ selected = "Factory Overview"
    /\ data_cache = EmptyCache
    /\ files = NoFiles
    /\ today = 0

Returned(fn, args, value) ==
    /\ ret' = [fn |-> fn, raised |-> "none", value |-> value, args |-> args]
    /\ UNCHANGED <<tables, rng, prev_ret, session, environment>>

Call_calculate_mtbf ==
    Returned("calculate_mtbf", <<>>, calculate_mtbf(machine_data))

Call_calculate_inventory_turnover ==
    Returned("calculate_inventory_turnover", <<>>,
             calculate_inventory_turnover(inventory_data))

\* the days on hand of the turnover of the table
Call_calculate_days_of_inventory ==
    LET inventory_turnover == calculate_inventory_turnover(inventory_data)
    IN  Returned("calculate_days_of_inventory", <<inventory_turnover>>,
                 calculate_days_of_inventory(inventory_turnover))

Call_calculate_fill_rate ==
    \E a, b \in Amounts :
        Returned("calculate_fill_rate", <<a, b>>, calculate_fill_rate(a, b))

Call_calculate_service_level ==
    \E a, b \in Amounts :
        Returned("calculate_service_level", <<a, b>>, calculate_service_level(a, b))

Call_calculate_warehouse_utilization ==
    \E a, b \in Amounts :
        Returned("calculate_warehouse_utilization", <<a, b>>,
                 calculate_warehouse_utilization(a, b))

Call_calculate_labor_productivity ==
    \E a, b \in Amounts :
        Returned("calculate_labor_productivity", <<a, b>>,
                 calculate_labor_productivity(a, b))

Call_calculate_cost_per_unit ==
    \E a, b \in Amounts :
        Returned("calculate_cost_per_unit", <<a, b>>, calculate_cost_per_unit(a, b))

Call_calculate_maintenance_efficiency ==
    \E a, b \in Amounts :
        Returned("calculate_maintenance_efficiency", <<a, b>>,
                 calculate_maintenance_efficiency(a, b))

NextRatios ==
    \/ Call_calculate_mtbf
    \/ Call_calculate_inventory_turnover
    \/ Call_calculate_days_of_inventory
    \/ Call_calculate_fill_rate
    \/ Call_calculate_service_level
    \/ Call_calculate_warehouse_utilization
    \/ Call_calculate_labor_productivity
    \/ Call_calculate_cost_per_unit
    \/ Call_calculate_maintenance_efficiency

SpecRatios == InitRatios /\ [][NextRatios]_vars

\* C18: no ratio utility fails on a zero denominator: calculate_fill_rate,
\* calculate_service_level and calculate_maintenance_efficiency return 100;
\* calculate_warehouse_utilization, calculate_labor_productivity and
\* calculate_cost_per_unit return 0; calculate_inventory_turnover returns 0
\* for an inventory value of 0; calculate_days_of_inventory returns infinity
\* for a turnover of 0; calculate_mtbf returns infinity exactly when no
\* machine has a temperature above 85.
C18_ZeroDenominators ==
    /\ ret.raised = "none"
    /\ (ret.fn \in RatioUtilities /\ ret.args[2] = 0) =>
            IF ret.fn \in {"calculate_fill_rate", "calculate_service_level",
                           "calculate_maintenance_efficiency"}
            THEN ret.value = Rat(100, 1)
            ELSE ret.value = Rat(0, 1)
    /\ (ret.fn = "calculate_inventory_turnover"
        /\ TotalStockValue(inventory_data) = 0) => ret.value = Rat(0, 1)
    /\ (ret.fn = "calculate_days_of_inventory" /\ ret.args[1] = Rat(0, 1))
            => ret.value = Infinity
    /\ ret.fn = "calculate_mtbf" =>
            (ret.value = Infinity
                <=> \A i \in DOMAIN machine_data : machine_data[i].temperature <= 850)

\* two machines, one of them at 90 degrees: a finite MTBF of 4000 / 1.5 hours
C18_Witness ==
    /\ ret.fn = "calculate_mtbf"
    /\ Len(machine_data) = 2
    /\ machine_data[1].temperature = 700
    /\ machine_data[2].temperature = 900
    /\ ret.value = Rat(8000, 3)

----------------------------------------------------------------------------
(* generate_recommendations on tables with more candidates of a kind than   *)
(* the function keeps                                                        *)

InitCaps ==
    /\ machine_data \in MachineTablesOfLen(CapMachines, {850, 900}, {40})
    /\ inventory_data \in ProductTablesOfLen(CapProducts, {50, 300})
    /\ operations_data \in AreaTablesOfLen(CapAreas, Utilizations)
    /\ demand_data = <<>>
    /\ rng \in RngStates
    /\ ret = NoReturn
    /\ prev_ret = NoReturn
    /\ session_state = <<>>
    /\ selected = "AI Decision Center"
    /\ data_cache = EmptyCache
    /\ files = NoFiles
    /\ today = 0

NextCaps == Invoke_generate_recommendations

SpecCaps == InitCaps /\ [][NextCaps]_vars

\* the rows a kind of recommendation was emitted for, and the first n rows of
\* a table that satisfy a test
RowsOfKind(recs, Kind(_)) == {RowOf(recs[k]) : k \in {j \in DOMAIN recs : Kind(recs[j])}}
NumberOfKind(recs, Kind(_)) == Cardinality({j \in DOMAIN recs : Kind(recs[j])})
FirstRows(table, Test(_), n) ==
    {i \in DOMAIN table :
        /\ Test(table[i])
        /\ Cardinality({j \in 1 .. i : Test(table[j])}) <= n}

IsCritical(rec) == rec.priority = 1 /\ rec.category = "Predictive Maintenance"

\* C19: generate_recommendations emits exactly one priority-1 'Predictive
\* Maintenance' recommendation for every machine above 85 degrees (no cap),
\* at most 3 stockout recommendations (the first three products below their
\* safety stock), at most 2 medium-risk recommendations (above 80 and at most
\* 85 degrees), at most 2 bottleneck recommendations (utilization above 85)
\* and at most 2 overstock recommendations (stock above 2.5 times the safety
\* stock); every priority is 1, 2 or 3 and the total is the sum of the five
\* capped counts.
C19_CountsAndCaps ==
    (ret.fn = "generate_recommendations" /\ ret.raised = "none") =>
        LET recs == ret.value
            hot(m) == m.temperature > 850
            low(p) == p.current_stock < p.safety_stock
            warm(m) == m.temperature > 800 /\ m.temperature <= 850
            busy(b) == b.utilization > 850
            over(p) == 2 * p.current_stock > 5 * p.safety_stock
        IN  /\ \A k \in DOMAIN recs : recs[k].priority \in {1, 2, 3}
            /\ \A k \in DOMAIN recs : recs[k].priority = 1 => IsCritical(recs[k])
            /\ NumberOfKind(recs, IsCritical) = Count(machine_data, hot)
            /\ RowsOfKind(recs, IsCritical) = FirstRows(machine_data, hot, Len(machine_data))
            /\ NumberOfKind(recs, IsStockout) = Min(3, Count(inventory_data, low))
            /\ RowsOfKind(recs, IsStockout) = FirstRows(inventory_data, low, 3)
            /\ NumberOfKind(recs, IsMedium) = Min(2, Count(machine_data, warm))
            /\ RowsOfKind(recs, IsMedium) = FirstRows(machine_data, warm, 2)
            /\ NumberOfKind(recs, IsBottleneck) = Min(2, Count(operations_data, busy))
            /\ RowsOfKind(recs, IsBottleneck) = FirstRows(operations_data, busy, 2)
            /\ NumberOfKind(recs, IsOverstock) = Min(2, Count(inventory_data, over))
            /\ RowsOfKind(recs, IsOverstock) = FirstRows(inventory_data, over, 2)
            /\ Len(recs) = Count(machine_data, hot)
                           + Min(3, Count(inventory_data, low))
                           + Min(2, Count(machine_data, warm))
                           + Min(2, Count(operations_data, busy))
                           + Min(2, Count(inventory_data, over))

\* four products below their safety stock, three machines at 85 degrees and
\* three busy areas: 3 + 2 + 2 recommendations
C19_Witness ==
    /\ ret.fn = "generate_recommendations"
    /\ ret.raised = "none"
    /\ Count(inventory_data, LAMBDA p : p.current_stock < p.safety_stock) = 4
    /\ Count(machine_data, LAMBDA m : m.temperature = 850) = 3
    /\ Count(operations_data, LAMBDA b : b.utilization > 850) = 3
    /\ Len(ret.value) = 7

----------------------------------------------------------------------------
(* generate_recommendations on inventory tables whose stocks and safety     *)
(* stocks both vary                                                          *)

ReorderStocks == {-5, 0, 1, 30, 99}
ReorderSafetyStocks == {0, 1, 100}

ReorderRows(i) ==
    {[product_id |-> i, product_name |-> <<"Product", i>>,
      current_stock |-> s, safety_stock |-> f,
      lead_time_days |-> 5, unit_cost |-> 1000]
        : s \in ReorderStocks, f \in ReorderSafetyStocks}

RECURSIVE ReorderTablesOfLen(_)
ReorderTablesOfLen(n) ==
    IF n = 0 THEN {<<>>}
    ELSE {Append(t, r) : t \in ReorderTablesOfLen(n - 1), r \in ReorderRows(n)}

InitReorder ==
    /\ machine_data \in MachineTablesOfLen(1, {700}, {20})
    /\ inventory_data \in UNION {ReorderTablesOfLen(n) : n \in 1 .. MaxReorderProducts}
    /\ operations_data \in AreaTablesOfLen(1, {700})
    /\ demand_data = <<>>
    /\ rng \in RngStates
    /\ ret = NoReturn
    /\ prev_ret = NoReturn
    /\ session_state = <<>>
    /\ selected = "AI Decision Center"
    /\ data_cache = EmptyCache
    /\ files = NoFiles
    /\ today = 0

NextReorder == Invoke_generate_recommendations

SpecReorder == InitReorder /\ [][NextReorder]_vars

\* the quantity named in the timeline of a stockout recommendation
OrderedUnits(rec) == rec.timeline[2]

\* C21: for every low-stock product (current_stock below safety_stock,
\* safety_stock non-negative) the reorder quantity named in its stockout
\* recommendation is 2 * safety_stock - current_stock; it is strictly greater
\* than safety_stock, and current_stock plus that quantity is exactly twice
\* the safety stock.
C21_ReorderQuantity ==
    (ret.fn = "generate_recommendations" /\ ret.raised = "none") =>
        \A i \in DOMAIN inventory_data :
            LET product == inventory_data[i]
            IN  (/\ product.current_stock < product.safety_stock
                 /\ product.safety_stock >= 0
                 /\ i \in FirstRows(inventory_data,
                                    LAMBDA p : p.current_stock < p.safety_stock, 3))
                    => \E k \in DOMAIN ret.value :
                        /\ IsStockout(ret.value[k])
                        /\ RowOf(ret.value[k]) = i
                        /\ OrderedUnits(ret.value[k])
                                = 2 * product.safety_stock - product.current_stock
                        /\ OrderedUnits(ret.value[k]) > product.safety_stock
                        /\ product.current_stock + OrderedUnits(ret.value[k])
                                = 2 * product.safety_stock

\* two stockout recommendations in one list: 30 units against a safety stock
\* of 100 (order 170) and a negative stock of -5 against a safety stock of 0
\* (order 5)
C21_Witness ==
    /\ ret.fn = "generate_recommendations"
    /\ ret.raised = "none"
    /\ Len(inventory_data) = 2
    /\ inventory_data[1].current_stock = 30
    /\ inventory_data[1].safety_stock = 100
    /\ inventory_data[2].current_stock = -5
    /\ inventory_data[2].safety_stock = 0
    /\ \E j, k \in DOMAIN ret.value :
            /\ IsStockout(ret.value[j]) /\ OrderedUnits(ret.value[j]) = 170
            /\ IsStockout(ret.value[k]) /\ OrderedUnits(ret.value[k]) = 5

====
